---- MODULE Spec2Model ----
(***************************************************************************)
(* The waste ledger of FoodWasteMonitor (Data::WasteDatabase): the entry   *)
(* sequence, the cached all-time statistics with their dirty flag, the     *)
(* change subscribers, the ledger mutex and the backing file.              *)
(*                                                                         *)
(* Text is modelled by the strings the samples below use.  A timestamp is  *)
(* parsed by looking it up in TimeTable (std::get_time fails on any other  *)
(* text); weights are whole grams, on which float addition is exact.       *)
(***************************************************************************)
EXTENDS Integers, Sequences, FiniteSets, TLC

\* ------------------------------------------------------------------ bounds

\* Longest ledger the model grows (addEntry is disabled beyond it).
MaxEntries == 2

\* Most subscribers registered.
MaxCallbacks == 2

\* ------------------------------------------------------------------- state

VARIABLES
    m_entries,            \* std::vector<WasteEntry>
    m_statistics,         \* the cached all-time WasteStatistics
    m_statisticsDirty,    \* std::atomic<bool>
    m_currentMealPeriod,  \* MealPeriod
    m_changeCallbacks,    \* std::vector<DatabaseChangeCallback>, by kind
    m_databaseMutex,      \* "free", or the thread that owns it
    file,                 \* the file at m_databasePath: whether it exists, its lines
    ret,                  \* the last call made: its arguments and how it ended
    sortKeepsTies,        \* whether this build's std::sort leaves elements that
                          \* compare equivalent in the order they had
    analyzer,             \* the Analysis::StatsAnalyzer on the database, if any
    arrival,              \* history: the entries passed to addEntry, in call order,
                          \* since the ledger was last cleared and reloaded
    pc,                   \* per thread of the concurrent clients: where it is
    local                 \* per thread: the locals of the call it is in

vars == <<m_entries, m_statistics, m_statisticsDirty, m_currentMealPeriod,
          m_changeCallbacks, m_databaseMutex, file, ret, arrival, pc, local,
          sortKeepsTies, analyzer>>

\* ------------------------------------------------------------- time, text

SecondsPerDay == 24 * 60 * 60

\* The timestamps the samples use.  day counts calendar days from
\* 2024-03-04; get_time accepts "%Y-%m-%d %H:%M:%S" and nothing else here.
TimeTable ==
    { [text |-> "2024-03-04 12:00:00", day |-> 0, hour |-> 12, min |-> 0,  sec |-> 0],
      [text |-> "2024-03-04 23:59:59", day |-> 0, hour |-> 23, min |-> 59, sec |-> 59],
      [text |-> "2024-03-05 00:00:00", day |-> 1, hour |-> 0,  min |-> 0,  sec |-> 0],
      [text |-> "2024-03-05 08:15:00", day |-> 1, hour |-> 8,  min |-> 15, sec |-> 0],
      [text |-> "2024-03-05 21:00:00", day |-> 1, hour |-> 21, min |-> 0,  sec |-> 0],
      [text |-> "2024-02-25 12:00:00", day |-> 0 - 8, hour |-> 12, min |-> 0, sec |-> 0],
      [text |-> "2024-02-10 12:00:00", day |-> 0 - 23, hour |-> 12, min |-> 0, sec |-> 0] }

\* The dates the samples use as startDate / endDate ("%Y-%m-%d"), the date of
\* the samples of the weeks before, and the dates 7, 30 and 365 days before
\* 2024-03-05.
DateTable ==
    { [text |-> "2024-03-04", day |-> 0],
      [text |-> "2024-03-05", day |-> 1],
      [text |-> "2024-02-25", day |-> 0 - 8],
      [text |-> "2024-02-10", day |-> 0 - 23],
      [text |-> "2024-02-27", day |-> 1 - 7],
      [text |-> "2024-02-04", day |-> 1 - 30],
      [text |-> "2023-03-06", day |-> 1 - 365] }

\* The std::tm a parse fills from a row of TimeTable.
parsedTime(r) ==
    [fail |-> FALSE, day |-> r.day, hour |-> r.hour, min |-> r.min, sec |-> r.sec]

\* ss >> std::get_time(&tm, "%Y-%m-%d %H:%M:%S"); fail is ss.fail().
get_time(text) ==
    IF \E r \in TimeTable : r.text = text
    THEN parsedTime(CHOOSE r \in TimeTable : r.text = text)
    ELSE [fail |-> TRUE, day |-> 0, hour |-> 0, min |-> 0, sec |-> 0]

\* ss >> std::get_time(&tm, "%Y-%m-%d"): the time of day stays 00:00:00.
get_date(text) ==
    IF \E r \in DateTable : r.text = text
    THEN LET r == CHOOSE r \in DateTable : r.text = text
         IN  [fail |-> FALSE, day |-> r.day, hour |-> 0, min |-> 0, sec |-> 0]
    ELSE [fail |-> TRUE, day |-> 0, hour |-> 0, min |-> 0, sec |-> 0]

\* std::mktime: seconds on one linear scale.
mktime(tm) == tm.day * SecondsPerDay + tm.hour * 3600 + tm.min * 60 + tm.sec

\* std::localtime of a time on that scale.
localtime(t) ==
    [fail |-> FALSE, day |-> t \div SecondsPerDay,
     hour |-> (t % SecondsPerDay) \div 3600,
     min  |-> (t % 3600) \div 60,
     sec  |-> t % 60]

\* ss << std::put_time(tm, "%Y-%m-%d").
put_date(tm) ==
    (CHOOSE r \in DateTable : r.day = tm.day).text

\* std::chrono::system_clock::now() at the calls: 2024-03-05 12:30:00.
Now == mktime([day |-> 1, hour |-> 12, min |-> 30, sec |-> 0])

\* std::chrono::hours(24 * n).
Days(n) == n * SecondsPerDay

\* ------------------------------------------------------------ meal periods

\* m_mealTimeRanges, in the order std::map iterates it (the enum's order).
m_mealTimeRanges ==
    << [period |-> "BREAKFAST", startHour |-> 6,  startMinute |-> 0, endHour |-> 10, endMinute |-> 30],
       [period |-> "LUNCH",     startHour |-> 11, startMinute |-> 0, endHour |-> 14, endMinute |-> 30],
       [period |-> "DINNER",    startHour |-> 17, startMinute |-> 0, endHour |-> 21, endMinute |-> 0],
       [period |-> "SNACK",     startHour |-> 21, startMinute |-> 0, endHour |-> 23, endMinute |-> 59] >>

\* determineMealPeriod(int hour, int minute) with the end of a range left out
\* of it.
determineMealPeriodAt_endExcluded(hour, minute) ==
    LET currentMinutes == hour * 60 + minute
        hits == { i \in 1..Len(m_mealTimeRanges) :
                    /\ currentMinutes >= m_mealTimeRanges[i].startHour * 60
                                         + m_mealTimeRanges[i].startMinute
                    /\ currentMinutes < m_mealTimeRanges[i].endHour * 60
                                        + m_mealTimeRanges[i].endMinute }
    IN  IF hits = {} THEN "SNACK"
        ELSE m_mealTimeRanges[CHOOSE i \in hits : \A j \in hits : i <= j].period

\* determineMealPeriod(int hour, int minute): the first range that holds the
\* time, SNACK when none does.
determineMealPeriodAt(hour, minute) ==
    LET currentMinutes == hour * 60 + minute
        hits == { i \in 1..Len(m_mealTimeRanges) :
                    /\ currentMinutes >= m_mealTimeRanges[i].startHour * 60
                                         + m_mealTimeRanges[i].startMinute
                    /\ currentMinutes <= m_mealTimeRanges[i].endHour * 60
                                         + m_mealTimeRanges[i].endMinute }
    IN  IF hits = {} THEN "SNACK"
        ELSE m_mealTimeRanges[CHOOSE i \in hits : \A j \in hits : i <= j].period

\* determineMealPeriod(const std::string& timestamp).
determineMealPeriod(timestamp) ==
    LET tm == get_time(timestamp)
    IN  IF tm.fail THEN "UNKNOWN" ELSE determineMealPeriodAt(tm.hour, tm.min)

\* getMealPeriodString, for a given period.
MealPeriodString(period) ==
    CASE period = "BREAKFAST" -> "Breakfast"
      [] period = "LUNCH"     -> "Lunch"
      [] period = "DINNER"    -> "Dinner"
      [] period = "SNACK"     -> "Snack"
      [] OTHER                -> "Unknown"

\* ----------------------------------------------------------------- entries

\* WasteEntry, built field by field.
WasteEntry(foodType, weight, timestamp, confidence, mealPeriod, imageFilename) ==
    [foodType |-> foodType, weight |-> weight, timestamp |-> timestamp,
     confidence |-> confidence, mealPeriod |-> mealPeriod,
     imageFilename |-> imageFilename]

\* The observations a client passes to addEntry.
Observations ==
    { WasteEntry("Rice", 2, "2024-03-04 12:00:00", 1, "", ""),
      WasteEntry("Soup", 1, "2024-03-04 23:59:59", 1, "Dinner", ""),
      WasteEntry("Rice", 1, "2024-03-05 00:00:00", 1, "Snack", ""),
      WasteEntry("Soup", 3, "not a time", 1, "", ""),
      WasteEntry("Rice", -1, "2024-03-05 21:00:00", 1, "Dinner", "") }

\* The detections a client passes to addDetection (className, estimatedWeight,
\* timestamp, confidence of Detection::FoodItem).
Detections ==
    { [className |-> "Soup", estimatedWeight |-> 2,
       timestamp |-> "2024-03-05 08:15:00", confidence |-> 1] }

\* ------------------------------------------------- the pure ledger methods

\* A std::map<std::string, T> with no key.
EmptyMap == [k \in {} |-> 0]

\* map[key] += v: operator[] inserts a zero for a key that is missing.
MapAdd(map, key, v) ==
    IF key \in DOMAIN map THEN [map EXCEPT ![key] = @ + v]
    ELSE map @@ (key :> v)

\* A percentage kept as the fraction num / den that the code rounds to float.
Fraction(num, den) == [num |-> num, den |-> den]

\* WasteStatistics(): the totals, the per-category weight and count, the
\* ranked categories, the per-meal weight and the week-over-week reduction of
\* the snapshot.
WasteStatistics ==
    [totalWeight |-> 0, totalItems |-> 0, weightByType |-> EmptyMap,
     countByType |-> EmptyMap, topWastedFoods |-> <<>>, weightByMeal |-> EmptyMap,
     wasteSavedTotal |-> 0, wasteSavedPercentage |-> Fraction(0, 1)]

\* The categories of the samples in the order a std::map<std::string, float>
\* iterates them (operator< of std::string).
FoodTypeOrder == <<"Mac,Cheese", "Rice", "Soup">>

\* std::sort(foodWeights.begin(), foodWeights.end(), a.second > b.second) on
\* the pairs of weightByType taken in key order: the keys by falling weight.
\* Where two weights are equal the comparator orders neither pair before the
\* other and std::sort may leave them either way round.
std_sort(weightByType) ==
    LET place(k) == CHOOSE i \in DOMAIN FoodTypeOrder : FoodTypeOrder[i] = k
        before(a, b) ==
            \/ weightByType[a] > weightByType[b]
            \/ /\ weightByType[a] = weightByType[b]
               /\ IF sortKeepsTies THEN place(a) < place(b) ELSE place(a) > place(b)
        ahead(k) == Cardinality({ a \in DOMAIN weightByType : before(a, k) })
    IN  [i \in 1..Cardinality(DOMAIN weightByType) |->
            CHOOSE k \in DOMAIN weightByType : ahead(k) = i - 1]

\* The ranking taken from the key order of every known category, whether the
\* map holds it or not.
topWastedFoods_ofAllKeys(weightByType) ==
    IF weightByType = EmptyMap THEN <<>> ELSE FoodTypeOrder

\* The first std::min(size_t(5), foodWeights.size()) sorted keys.
topWastedFoods(weightByType) ==
    LET foodWeights == std_sort(weightByType)
    IN  SubSeq(foodWeights, 1, IF Len(foodWeights) < 5 THEN Len(foodWeights) ELSE 5)

\* calculateStatistics's second loop over m_entries, from entry i on: the
\* weight of the last seven days and of the seven days before them.
\* One pass of calculateStatistics's second loop: an entry whose timestamp
\* parsed to entryTime is added to the weight of the last seven days or of the
\* seven days before them.
weekAdd(acc, weight, fail, entryTime, now) ==
    IF fail THEN acc
    ELSE IF entryTime >= now - Days(7)
    THEN [acc EXCEPT !.lastWeekWeight = @ + weight]
    ELSE IF entryTime >= now - Days(14)
    THEN [acc EXCEPT !.previousWeekWeight = @ + weight]
    ELSE acc

weekStep(acc, weight, tm, now) ==
    weekAdd(acc, weight, tm.fail, mktime(tm), now)

\* calculateStatistics's second loop over m_entries, from entry i on.
RECURSIVE weekLoop(_, _, _, _)
weekLoop(entries, i, now, acc) ==
    IF i > Len(entries) THEN acc
    ELSE weekLoop(entries, i + 1, now,
                  weekStep(acc, entries[i].weight, get_time(entries[i].timestamp), now))

\* wasteSavedTotal and wasteSavedPercentage without the clamp to zero.
wasteSaved_notClamped(lastWeekWeight, previousWeekWeight) ==
    IF previousWeekWeight > 0
    THEN [total |-> previousWeekWeight - lastWeekWeight,
          percentage |-> Fraction((previousWeekWeight - lastWeekWeight) * 100,
                                  previousWeekWeight)]
    ELSE [total |-> 0, percentage |-> Fraction(0, 1)]

\* calculateStatistics: wasteSavedTotal and wasteSavedPercentage, left at zero
\* unless the earlier week weighs more than nothing and more than the last.
wasteSaved(lastWeekWeight, previousWeekWeight) ==
    IF previousWeekWeight > 0 /\ previousWeekWeight - lastWeekWeight > 0
    THEN [total |-> previousWeekWeight - lastWeekWeight,
          percentage |-> Fraction((previousWeekWeight - lastWeekWeight) * 100,
                                  previousWeekWeight)]
    ELSE [total |-> 0, percentage |-> Fraction(0, 1)]

\* calculateStatistics: the ranking and the reduction stored in the snapshot.
storeDerived(summed, weeks) ==
    [summed EXCEPT
        !.topWastedFoods = topWastedFoods(summed.weightByType),
        !.wasteSavedTotal = wasteSaved(weeks.lastWeekWeight,
                                       weeks.previousWeekWeight).total,
        !.wasteSavedPercentage = wasteSaved(weeks.lastWeekWeight,
                                            weeks.previousWeekWeight).percentage]

\* The two week weights before any entry is read.
NoWeeks == [lastWeekWeight |-> 0, previousWeekWeight |-> 0]

\* One pass of calculateStatistics's loop over m_entries, from entry i on.
RECURSIVE calculateLoop(_, _, _)
calculateLoop(entries, i, acc) ==
    IF i > Len(entries) THEN acc
    ELSE LET entry == entries[i]
         IN  calculateLoop(entries, i + 1,
                [acc EXCEPT
                    !.totalWeight  = @ + entry.weight,
                    !.weightByType = MapAdd(@, entry.foodType, entry.weight),
                    !.countByType  = MapAdd(@, entry.foodType, 1),
                    !.weightByMeal = MapAdd(@, entry.mealPeriod, entry.weight)])

\* calculateStatistics: m_statistics as it leaves it for m_entries = entries.
calculateStatistics(entries) ==
    IF entries = <<>> THEN WasteStatistics
    ELSE storeDerived(calculateLoop(entries, 1,
                          [WasteStatistics EXCEPT !.totalItems = Len(entries)]),
                      weekLoop(entries, 1, Now, NoWeeks))

\* filterEntriesByDate's loop, from entry i on.
RECURSIVE filterLoop(_, _, _, _, _, _, _)
filterLoop(entries, i, hasStartDate, startTm, hasEndDate, endTm, result) ==
    IF i > Len(entries) THEN result
    ELSE LET entryTm == get_time(entries[i].timestamp)
             include == /\ hasStartDate => mktime(entryTm) >= mktime(startTm)
                        /\ hasEndDate   => mktime(entryTm) <= mktime(endTm)
         IN  filterLoop(entries, i + 1, hasStartDate, startTm, hasEndDate, endTm,
                IF ~entryTm.fail /\ include THEN Append(result, entries[i]) ELSE result)

\* filterEntriesByDate with the end date left at 00:00:00 of its day.
filterEntriesByDate_endAtMidnight(entries, startDate, endDate) ==
    LET startTm      == get_date(startDate)
        hasStartDate == startDate # "" /\ ~startTm.fail
        endTm        == get_date(endDate)
        hasEndDate   == endDate # "" /\ ~endTm.fail
    IN  filterLoop(entries, 1, hasStartDate, startTm, hasEndDate, endTm, <<>>)

\* filterEntriesByDate(entries, startDate, endDate).
filterEntriesByDate(entries, startDate, endDate) ==
    LET startTm      == get_date(startDate)
        hasStartDate == startDate # "" /\ ~startTm.fail
        endParsed    == get_date(endDate)
        hasEndDate   == endDate # "" /\ ~endParsed.fail
        endTm        == [endParsed EXCEPT !.hour = 23, !.min = 59, !.sec = 59]
    IN  filterLoop(entries, 1, hasStartDate, startTm, hasEndDate, endTm, <<>>)

\* getEntries(foodType, startDate, endDate) on m_entries = entries.
getEntries(entries, foodType, startDate, endDate) ==
    LET byType == IF foodType # ""
                  THEN SelectSeq(entries, LAMBDA e : e.foodType = foodType)
                  ELSE entries
    IN  IF startDate # "" \/ endDate # ""
        THEN filterEntriesByDate(byType, startDate, endDate)
        ELSE byType

\* The database's state as the methods below take and return it.
Db(entries, stats, dirty) == [entries |-> entries, stats |-> stats, dirty |-> dirty]

\* getStatistics that recomputes and leaves m_statisticsDirty as it found it.
getStatistics_leavesDirty(db, period) ==
    LET recalc == db.dirty \/ period # "ALL_TIME"
        stats  == IF recalc THEN calculateStatistics(db.entries) ELSE db.stats
    IN  [entries |-> db.entries, stats |-> stats, dirty |-> db.dirty,
         recomputed |-> recalc, relocks |-> period # "ALL_TIME"]

\* getStatistics(period) up to the return for ALL_TIME; for a bounded period
\* up to its call of getEntries (relocks), made with the mutex still held.
getStatistics(db, period) ==
    LET recalc == db.dirty \/ period # "ALL_TIME"
        stats  == IF recalc THEN calculateStatistics(db.entries) ELSE db.stats
    IN  [entries |-> db.entries, stats |-> stats,
         dirty |-> IF recalc THEN FALSE ELSE db.dirty,
         recomputed |-> recalc, relocks |-> period # "ALL_TIME"]

\* The window of a bounded TimePeriod, in days.
PeriodDays(period) ==
    CASE period = "DAY"   -> 1
      [] period = "WEEK"  -> 7
      [] period = "MONTH" -> 30
      [] period = "YEAR"  -> 365

\* getStatistics(period) for a bounded period, from the boundary on: the
\* start of the window is formatted as a date, getEntries is called with it
\* as startDate and no endDate, and the entries it returns are summed.
periodStatistics(entries, period, now) ==
    LET startTime     == now - Days(PeriodDays(period))
        startDateStr  == put_date(localtime(startTime))
        periodEntries == getEntries(entries, "", startDateStr, "")
        summed        == calculateLoop(periodEntries, 1,
                             [WasteStatistics EXCEPT !.totalItems = Len(periodEntries)])
    IN  [summed EXCEPT !.topWastedFoods = topWastedFoods(summed.weightByType)]

\* What the sample subscribers do when called: read the whole ledger, read
\* the all-time statistics, or throw.
CallbackKinds == {"getEntries", "getStatistics", "throws"}

\* notifyDatabaseChanged's loop from subscriber i on.  held: whether the
\* calling thread holds m_databaseMutex; a subscriber that then calls into the
\* ledger locks a mutex its own thread owns and never returns.
RECURSIVE notifyLoop(_, _, _, _, _)
notifyLoop(db, callbacks, i, held, log) ==
    IF i > Len(callbacks)
    THEN [entries |-> db.entries, stats |-> db.stats, dirty |-> db.dirty,
          log |-> log, outcome |-> "returned"]
    ELSE LET kind == callbacks[i]
             seen == [callback |-> i, kind |-> kind, entries |-> db.entries,
                      dirty |-> db.dirty, blocked |-> held /\ kind # "throws"]
         IN  IF seen.blocked
             THEN [entries |-> db.entries, stats |-> db.stats, dirty |-> db.dirty,
                   log |-> Append(log, seen), outcome |-> "deadlock"]
             ELSE IF kind = "throws"
             THEN [entries |-> db.entries, stats |-> db.stats, dirty |-> db.dirty,
                   log |-> Append(log, seen), outcome |-> "threw"]
             ELSE IF kind = "getStatistics"
             THEN LET g == getStatistics(db, "ALL_TIME")
                  IN  notifyLoop(Db(g.entries, g.stats, g.dirty), callbacks, i + 1,
                                 held, Append(log, seen))
             ELSE notifyLoop(db, callbacks, i + 1, held, Append(log, seen))

\* notifyDatabaseChanged().
notifyDatabaseChanged(db, callbacks, held) == notifyLoop(db, callbacks, 1, held, <<>>)

\* addEntry that notifies inside the lock_guard's scope.
addEntry_notifiesUnderLock(db, callbacks, entry) ==
    notifyDatabaseChanged(Db(Append(db.entries, entry), db.stats, TRUE),
                          callbacks, TRUE)

\* addEntry that undoes the append when a subscriber throws.
addEntry_rollsBackOnThrow(db, callbacks, entry) ==
    LET r == notifyDatabaseChanged(Db(Append(db.entries, entry), db.stats, TRUE),
                                   callbacks, FALSE)
    IN  IF r.outcome = "threw"
        THEN [r EXCEPT !.entries = db.entries, !.dirty = db.dirty]
        ELSE r

\* addEntry that inserts the entry at the front of m_entries.
addEntry_insertsAtFront(db, callbacks, entry) ==
    notifyDatabaseChanged(Db(<<entry>> \o db.entries, db.stats, TRUE),
                          callbacks, FALSE)

\* addEntry(entry): the push and the flag under the lock, then, the lock
\* released, the notification.
addEntry(db, callbacks, entry) ==
    notifyDatabaseChanged(Db(Append(db.entries, entry), db.stats, TRUE),
                          callbacks, FALSE)

\* The entry addDetection builds from a detection.
DetectionEntry(item, currentMealPeriod) ==
    WasteEntry(item.className, item.estimatedWeight, item.timestamp,
               item.confidence, MealPeriodString(currentMealPeriod), "")

\* ------------------------------------------------------------- persistence

\* A text cut at its commas, as std::getline(ss, token, ',') cuts a line that
\* holds it.
Segments(text) ==
    IF text = "Mac,Cheese" THEN <<"Mac", "Cheese">> ELSE <<text>>

\* operator<<(float), for the values the samples hold.
FloatText(x) ==
    CASE x = -1 -> "-1"
      [] x = 0  -> "0"
      [] x = 1  -> "1"
      [] x = 2  -> "2"
      [] x = 3  -> "3"

\* std::stof(token): the number a numeric text holds, the leading number of a
\* timestamp, std::invalid_argument for any other token.
stof(token) ==
    IF \E x \in -1..3 : FloatText(x) = token
    THEN [throws |-> FALSE, value |-> CHOOSE x \in -1..3 : FloatText(x) = token]
    ELSE IF \E r \in TimeTable : r.text = token
    THEN [throws |-> FALSE, value |-> 2024]
    ELSE [throws |-> TRUE, value |-> 0]

\* The header line saveToFile writes, cut at its commas.
HeaderLine ==
    <<"FoodType", "Weight", "Timestamp", "Confidence", "MealPeriod", "ImageFilename">>

\* The line saveToFile writes for an entry, cut at its commas.
EntryLine(entry) ==
    Segments(entry.foodType) \o <<FloatText(entry.weight)>>
        \o Segments(entry.timestamp) \o <<FloatText(entry.confidence)>>
        \o Segments(entry.mealPeriod) \o Segments(entry.imageFilename)

\* The lines saveToFile writes for m_entries = entries.
RECURSIVE EntryLines(_)
EntryLines(entries) ==
    IF entries = <<>> THEN <<>>
    ELSE <<EntryLine(Head(entries))>> \o EntryLines(Tail(entries))

\* saveToFile(): the file it leaves when the stream opens.
saveToFile(entries) ==
    [exists |-> TRUE, lines |-> <<HeaderLine>> \o EntryLines(entries)]

\* Whether the k-th std::getline(ss, token, ',') of a line yields a token: it
\* fails past the last token, and on a last token that is empty (end of stream
\* with nothing extracted).
HasToken(tokens, k) ==
    \/ k < Len(tokens)
    \/ k = Len(tokens) /\ tokens[k] # ""

\* loadFromFile's parse of one line: the entry, or throws when std::stof does.
ParseLine(tokens) ==
    LET weight     == IF HasToken(tokens, 2) THEN stof(tokens[2])
                      ELSE [throws |-> FALSE, value |-> 0]
        confidence == IF HasToken(tokens, 4) THEN stof(tokens[4])
                      ELSE [throws |-> FALSE, value |-> 0]
    IN  [throws |-> weight.throws \/ confidence.throws,
         entry  |-> WasteEntry(IF HasToken(tokens, 1) THEN tokens[1] ELSE "",
                               weight.value,
                               IF HasToken(tokens, 3) THEN tokens[3] ELSE "",
                               confidence.value,
                               IF HasToken(tokens, 5) THEN tokens[5] ELSE "",
                               IF HasToken(tokens, 6) THEN tokens[6] ELSE "")]

\* loadFromFile's loop over the lines from line i on: the entries pushed and
\* whether a line threw.
RECURSIVE loadLoop(_, _, _)
loadLoop(lines, i, entries) ==
    IF i > Len(lines) THEN [entries |-> entries, threw |-> FALSE]
    ELSE LET parsed == ParseLine(lines[i])
         IN  IF parsed.throws THEN [entries |-> entries, threw |-> TRUE]
             ELSE loadLoop(lines, i + 1, Append(entries, parsed.entry))

\* loadFromFile(): false with nothing touched when the file does not open;
\* else m_entries is cleared and refilled from the lines after the header; an
\* exception is caught and gives false, with the flag as it was.
loadFromFile(db, f) ==
    IF ~f.exists
    THEN [entries |-> db.entries, stats |-> db.stats, dirty |-> db.dirty,
          result |-> FALSE]
    ELSE LET loaded == loadLoop(f.lines, 2, <<>>)
         IN  [entries |-> loaded.entries, stats |-> db.stats,
              dirty |-> IF loaded.threw THEN db.dirty ELSE TRUE,
              result |-> ~loaded.threw]

\* initialize(): loadFromFile when the file exists, else an empty dirty ledger.
initialize(db, f) ==
    IF f.exists THEN loadFromFile(db, f)
    ELSE [entries |-> <<>>, stats |-> db.stats, dirty |-> TRUE, result |-> TRUE]

\* ------------------------------------------------------------ the analyzer

\* A std::map with key set to v.
MapPut(map, key, v) ==
    [k \in DOMAIN map \cup {key} |-> IF k = key THEN v ELSE map[k]]

\* TrendData(): no label, no value.
TrendData ==
    [timeLabels |-> <<>>, values |-> <<>>, changePercentage |-> Fraction(0, 1),
     increasing |-> FALSE]

\* PredictionModel(): intercept, slope and rSquared start at zero.
PredictionModel ==
    [intercept |-> Fraction(0, 1), slope |-> Fraction(0, 1),
     rSquared |-> Fraction(0, 1)]

\* The days analyzeDailyTrend, analyzeFoodTypeTrend and analyzeMealPeriodTrend
\* look back by default.
DefaultDays == 30

\* getWasteTrend, one pass of the loop over the entries: the weight of an
\* entry whose timestamp parses and whose date is a key of the map is added
\* to that date.  The map is kept as the sequence of its values in key order;
\* firstDay is the day of its first key.
trendAdd(trend, tm, weight, firstDay) ==
    IF ~tm.fail /\ (tm.day - firstDay + 1) \in DOMAIN trend
    THEN [trend EXCEPT ![tm.day - firstDay + 1] = @ + weight]
    ELSE trend

RECURSIVE trendLoop(_, _, _, _)
trendLoop(entries, i, trend, firstDay) ==
    IF i > Len(entries) THEN trend
    ELSE trendLoop(entries, i + 1,
                   trendAdd(trend, get_time(entries[i].timestamp),
                            entries[i].weight, firstDay),
                   firstDay)

\* getWasteTrend(MONTH), after its getStatistics(MONTH) has returned: one
\* zero for each of the days now - (days - 1) .. now, then the entries.
getWasteTrend(entries, days, now) ==
    trendLoop(entries, 1, [i \in 1..days |-> 0],
              localtime(now - Days(days - 1)).day)

\* calculateTrendPercentage without the test of the first value.
calculateTrendPercentage_unguarded(values) ==
    IF Len(values) < 2 THEN Fraction(0, 1)
    ELSE Fraction((values[Len(values)] - values[1]) * 100, values[1])

\* calculateTrendPercentage(values): (last - first) / first * 100, zero for
\* fewer than two values or a first value of zero.
calculateTrendPercentage(values) ==
    IF Len(values) < 2 THEN Fraction(0, 1)
    ELSE IF values[1] = 0 THEN Fraction(0, 1)
    ELSE Fraction((values[Len(values)] - values[1]) * 100, values[1])

\* changePercentage > 0.
Positive(q) == (q.num > 0 /\ q.den > 0) \/ (q.num < 0 /\ q.den < 0)

\* The last days elements of a sorted series.
lastDays(series, days) ==
    IF Len(series) > days
    THEN SubSeq(series, Len(series) - days + 1, Len(series))
    ELSE series

\* trend.timeLabels, trend.values, changePercentage and increasing from the
\* sorted labels and their values.
trendData(labels, values) ==
    [timeLabels |-> labels, values |-> values,
     changePercentage |-> calculateTrendPercentage(values),
     increasing |-> Positive(calculateTrendPercentage(values))]

\* analyzeDailyTrend(days), from the map getWasteTrend returned; the label of
\* a day is kept as its place in the series.
analyzeDailyTrend(wasteTrend, days) ==
    trendData([i \in 1..Len(lastDays(wasteTrend, days)) |-> i],
              lastDays(wasteTrend, days))

\* std::accumulate over a vector.
RECURSIVE accumulate(_)
accumulate(values) ==
    IF values = <<>> THEN 0 ELSE Head(values) + accumulate(Tail(values))

\* performLinearRegression, rSquared: 1 - ssr / sst of the least-squares
\* line, which is sumXY^2 / (sumXX * sumYY); zero when sst is zero.  The sums
\* are taken times n, which leaves the quotient as it is.
fitOf(sumXY, sumXX, sumYY) ==
    IF sumXX = 0 \/ sumYY = 0 THEN Fraction(0, 1)
    ELSE Fraction(sumXY * sumXY, sumXX * sumYY)

\* performLinearRegression with rSquared left at one whatever the residuals.
regressionOf_fitAlwaysOne(n, sx, sy, sumXY, sumXX, sumYY) ==
    [intercept |-> Fraction(sy * sumXX - sumXY * sx, n * sumXX),
     slope     |-> Fraction(n * sumXY, n * sumXX),
     rSquared  |-> Fraction(1, 1)]

\* performLinearRegression, from the sums (sx and sy plain, the others times
\* n): slope = sumXY / sumXX, intercept = meanY - slope * meanX, both kept
\* over the denominator n * sumXX; a flat line through meanY when sumXX is
\* zero.
regressionOf(n, sx, sy, sumXY, sumXX, sumYY) ==
    IF sumXX = 0
    THEN [intercept |-> Fraction(sy, n), slope |-> Fraction(0, 1),
          rSquared |-> Fraction(0, 1)]
    ELSE [intercept |-> Fraction(sy * sumXX - sumXY * sx, n * sumXX),
          slope     |-> Fraction(n * sumXY, n * sumXX),
          rSquared  |-> fitOf(sumXY, sumXX, sumYY)]

sumsOf(n, sx, sy, sxy, sxx, syy) ==
    regressionOf(n, sx, sy, n * sxy - sx * sy, n * sxx - sx * sx, n * syy - sy * sy)

\* performLinearRegression(xValues = 0 .. n-1, yValues): the intercept, the
\* slope and the rSquared it assigns, all zero for fewer than two points.
performLinearRegression(yValues) ==
    IF Len(yValues) < 2
    THEN [intercept |-> Fraction(0, 1), slope |-> Fraction(0, 1),
          rSquared |-> Fraction(0, 1)]
    ELSE sumsOf(Len(yValues),
                accumulate([i \in DOMAIN yValues |-> i - 1]),
                accumulate(yValues),
                accumulate([i \in DOMAIN yValues |-> (i - 1) * yValues[i]]),
                accumulate([i \in DOMAIN yValues |-> (i - 1) * (i - 1)]),
                accumulate([i \in DOMAIN yValues |-> yValues[i] * yValues[i]]))

\* createPredictionModel(data): PredictionModel() for fewer than two points,
\* else the regression over x = 0 .. n-1.
createPredictionModel(data) ==
    IF Len(data) < 2
    THEN [intercept |-> Fraction(0, 1), slope |-> Fraction(0, 1),
          rSquared |-> Fraction(0, 1)]
    ELSE performLinearRegression(data)

\* predictFutureWaste: std::abs(m_wastePredictionModel.rSquared) < 0.1f.
poorFit(model) == 10 * model.rSquared.num < model.rSquared.den

\* intercept + slope * futureDay, on the denominator the two share when the
\* model was fitted.
lineAt(intercept, slope, futureDay) ==
    IF intercept.den = slope.den
    THEN Fraction(intercept.num + slope.num * futureDay, intercept.den)
    ELSE Fraction(intercept.num * slope.den + slope.num * futureDay * intercept.den,
                  intercept.den * slope.den)

\* std::max(0.0f, predictedWaste) with the clamp left out.
max0_unclamped(q) == q

\* std::max(0.0f, predictedWaste).
max0(q) ==
    IF (q.num < 0 /\ q.den > 0) \/ (q.num > 0 /\ q.den < 0) THEN Fraction(0, 1)
    ELSE q

\* predictFutureWaste(daysInFuture), past the refresh of a poor fit: 0 for a
\* negative argument, else the line of m_wastePredictionModel at
\* m_dailyTrend.values.size() - 1 + daysInFuture, not below 0.
predictedWaste(model, size, daysInFuture) ==
    IF daysInFuture < 0 THEN Fraction(0, 1)
    ELSE max0(lineAt(model.intercept, model.slope, size - 1 + daysInFuture))

\* The keys of a per-category or per-meal trend map, in the order std::map
\* and std::sort put them (byte order).
LabelOrder ==
    <<"2024-02-10", "2024-02-25", "2024-03-04", "2024-03-05", "not a time">>

\* entry.timestamp.substr(0, 10): the date of a timestamp that parses, and
\* the whole text of one of at most ten characters.
substr10(timestamp) ==
    IF get_time(timestamp).fail THEN timestamp
    ELSE put_date(get_time(timestamp))

\* analyzeFoodTypeTrend / analyzeMealPeriodTrend, the grouping loop:
\* dailyWeights[dateStr] += entry.weight for each entry of the meal period
\* (any period when all is TRUE).
RECURSIVE groupLoop(_, _, _, _, _)
groupLoop(entries, i, all, mealPeriod, dailyWeights) ==
    IF i > Len(entries) THEN dailyWeights
    ELSE groupLoop(entries, i + 1, all, mealPeriod,
                   IF all \/ entries[i].mealPeriod = mealPeriod
                   THEN MapAdd(dailyWeights, substr10(entries[i].timestamp),
                               entries[i].weight)
                   ELSE dailyWeights)

\* The sorted keys of dailyWeights, limited to the last days.
sortedLabels(dailyWeights, days) ==
    lastDays(SelectSeq(LabelOrder, LAMBDA k : k \in DOMAIN dailyWeights), days)

\* The trend of a grouped map.
groupedTrend(dailyWeights, labels) ==
    trendData(labels, [i \in DOMAIN labels |-> dailyWeights[labels[i]]])

\* analyzeFoodTypeTrend(foodType, days), over the entries getEntries(foodType)
\* returned.
analyzeFoodTypeTrend(entries, days) ==
    IF entries = <<>> THEN TrendData
    ELSE groupedTrend(groupLoop(entries, 1, TRUE, "", EmptyMap),
                      sortedLabels(groupLoop(entries, 1, TRUE, "", EmptyMap), days))

\* analyzeMealPeriodTrend(mealPeriod, days), over the entries getEntries()
\* returned.
analyzeMealPeriodTrend(entries, mealPeriod, days) ==
    IF entries = <<>> THEN TrendData
    ELSE groupedTrend(groupLoop(entries, 1, FALSE, mealPeriod, EmptyMap),
                      sortedLabels(groupLoop(entries, 1, FALSE, mealPeriod, EmptyMap),
                                   days))

\* updateStats(), from the result g of its getStatistics(ALL_TIME).  relock
\* is what the lock inside getWasteTrend's getStatistics(MONTH) does with the
\* mutex the thread holds: "deadlock", "system_error", or "returned" when it
\* goes through.  m_currentStats and m_insightsDirty are assigned before that
\* point, the trend and the fit after it.
updateStatsFrom(g, a, relock, now) ==
    [stats |-> getStatistics(Db(g.entries, g.stats, g.dirty), "MONTH").stats,
     dirty |-> getStatistics(Db(g.entries, g.stats, g.dirty), "MONTH").dirty,
     outcome |-> relock,
     analyzer |->
        IF relock = "returned"
        THEN [a EXCEPT
                !.m_currentStats = g.stats,
                !.m_insightsDirty = TRUE,
                !.m_dailyTrend =
                    analyzeDailyTrend(getWasteTrend(g.entries, DefaultDays, now),
                                      DefaultDays),
                !.m_wastePredictionModel =
                    performLinearRegression(
                        analyzeDailyTrend(getWasteTrend(g.entries, DefaultDays, now),
                                          DefaultDays).values)]
        ELSE [a EXCEPT !.m_currentStats = g.stats, !.m_insightsDirty = TRUE]]

\* updateStats().
updateStats(db, a, relock, now) ==
    updateStatsFrom(getStatistics(db, "ALL_TIME"), a, relock, now)

\* |q| of a percentage.
absOf(q) == Fraction(IF q.num < 0 THEN 0 - q.num ELSE q.num,
                     IF q.den < 0 THEN 0 - q.den ELSE q.den)

\* getInsights, the sentences it builds before the forecast, from its copy of
\* m_currentStats and from m_dailyTrend: the total weight and the item count;
\* the first of the ranked categories and its weight, when there is one; the
\* direction and the size of the trend, when it has more than one value; the
\* reduction, when it is positive.  (The sentences on the meal period and the
\* weekday are left out.)
insightsOf(stats, trend) ==
    << [about |-> "total", weight |-> stats.totalWeight, items |-> stats.totalItems] >>
    \o (IF stats.topWastedFoods # <<>>
        THEN << [about |-> "top", food |-> stats.topWastedFoods[1],
                 weight |-> stats.weightByType[stats.topWastedFoods[1]]] >>
        ELSE <<>>)
    \o (IF Len(trend.values) > 1
        THEN << [about |-> "trend", increasing |-> trend.increasing,
                 percentage |-> absOf(trend.changePercentage),
                 days |-> Len(trend.values)] >>
        ELSE <<>>)
    \o (IF stats.wasteSavedTotal > 0
        THEN << [about |-> "reduction", weight |-> stats.wasteSavedTotal,
                 percentage |-> stats.wasteSavedPercentage] >>
        ELSE <<>>)

\* getInsights, its last sentence: predictFutureWaste(7) on the model and the
\* trend the analyzer holds by then.
forecastOf(a) ==
    << [about |-> "forecast",
        waste |-> predictedWaste(a.m_wastePredictionModel,
                                 Len(a.m_dailyTrend.values), 7)] >>

\* The record kept of a call.  repeat: for getStatistics, whether the call
\* before it was the same call and returned.
Call(op, arg, outcome, value, log, recomputed, repeat) ==
    [op |-> op, arg |-> arg, outcome |-> outcome, value |-> value,
     log |-> log, recomputed |-> recomputed, repeat |-> repeat]

\* No StatsAnalyzer constructed.
NoAnalyzer ==
    [constructed |-> FALSE, m_currentStats |-> WasteStatistics,
     m_dailyTrend |-> TrendData, m_foodTypeTrends |-> EmptyMap,
     m_mealPeriodTrends |-> EmptyMap, m_wastePredictionModel |-> PredictionModel,
     m_insights |-> <<>>, m_insightsDirty |-> TRUE]

\* No file at m_databasePath.
NoFile == [exists |-> FALSE, lines |-> <<>>]

\* The threads of the concurrent clients, and a thread that is in no call.
Threads == {"t1", "t2"}
NoLocals ==
    [op |-> "none", entry |-> <<>>, i |-> 0, result |-> <<>>, maps |-> WasteStatistics]

\* Local times at which the database may be constructed.
WallClockSamples == { <<12, 30>>, <<19, 0>> }

\* WasteDatabase(databasePath) with no file at the path: initializeMealPeriods
\* sets the current period from the wall clock, initialize() leaves an empty,
\* dirty ledger.
Init ==
    /\ m_entries = <<>>
    /\ m_statistics = WasteStatistics
    /\ m_statisticsDirty = TRUE
    /\ m_currentMealPeriod \in { determineMealPeriodAt(t[1], t[2]) : t \in WallClockSamples }
    /\ m_changeCallbacks = <<>>
    /\ m_databaseMutex = "free"
    /\ ret = Call("WasteDatabase", <<>>, "returned", <<>>, <<>>, FALSE, FALSE)
    /\ arrival = <<>>
    /\ file = NoFile
    /\ sortKeepsTies \in BOOLEAN
    /\ analyzer = NoAnalyzer
    /\ pc = [t \in Threads |-> "idle"]
    /\ local = [t \in Threads |-> NoLocals]

\* ------------------------------------------------ calls of a single thread

\* addEntry(entry).  A subscriber that throws ends the call by its exception;
\* one that blocks on the mutex leaves the caller inside it.
AddEntry(entry) ==
    /\ m_databaseMutex = "free"
    /\ Len(m_entries) < MaxEntries
    /\ LET r == addEntry(Db(m_entries, m_statistics, m_statisticsDirty),
                         m_changeCallbacks, entry)
       IN  /\ m_entries' = r.entries
           /\ m_statistics' = r.stats
           /\ m_statisticsDirty' = r.dirty
           /\ m_databaseMutex' = IF r.outcome = "deadlock" THEN "main" ELSE "free"
           /\ ret' = Call("addEntry", entry, r.outcome, <<>>, r.log, FALSE, FALSE)
    /\ arrival' = Append(arrival, entry)
    /\ UNCHANGED <<m_currentMealPeriod, sortKeepsTies, analyzer, m_changeCallbacks, file, pc, local>>

\* addDetection(item): builds the entry, then addEntry.
AddDetection(item) ==
    /\ m_databaseMutex = "free"
    /\ Len(m_entries) < MaxEntries
    /\ LET entry == DetectionEntry(item, m_currentMealPeriod)
           r == addEntry(Db(m_entries, m_statistics, m_statisticsDirty),
                         m_changeCallbacks, entry)
       IN  /\ m_entries' = r.entries
           /\ m_statistics' = r.stats
           /\ m_statisticsDirty' = r.dirty
           /\ m_databaseMutex' = IF r.outcome = "deadlock" THEN "main" ELSE "free"
           /\ ret' = Call("addDetection", item, r.outcome, <<>>, r.log, FALSE, FALSE)
           /\ arrival' = Append(arrival, entry)
    /\ UNCHANGED <<m_currentMealPeriod, sortKeepsTies, analyzer, m_changeCallbacks, file, pc, local>>

\* getEntries(foodType, startDate, endDate).
GetEntries(foodType, startDate, endDate) ==
    /\ m_databaseMutex = "free"
    /\ ret' = Call("getEntries", <<foodType, startDate, endDate>>, "returned",
                   getEntries(m_entries, foodType, startDate, endDate), <<>>, FALSE, FALSE)
    /\ UNCHANGED <<m_entries, m_statistics, m_statisticsDirty, m_currentMealPeriod, sortKeepsTies, analyzer,
                   m_changeCallbacks, m_databaseMutex, file, arrival, pc, local>>

\* getStatistics(period).  For a bounded period the call reaches getEntries
\* with m_databaseMutex held by the calling thread: std::mutex::lock on a mutex
\* the thread owns is undefined; the thread blocks for good, or lock throws
\* std::system_error (resource_deadlock_would_occur) and the guard unlocks, or
\* (a mutex that does not enforce ownership) the call goes on and returns the
\* statistics of the period.
GetStatistics(period) ==
    /\ m_databaseMutex = "free"
    /\ LET g == getStatistics(Db(m_entries, m_statistics, m_statisticsDirty), period)
           again == /\ ret.op = "getStatistics"
                    /\ ret.arg = period
                    /\ ret.outcome = "returned"
       IN  /\ m_statistics' = g.stats
           /\ m_statisticsDirty' = g.dirty
           /\ \/ /\ ~g.relocks
                 /\ m_databaseMutex' = "free"
                 /\ ret' = Call("getStatistics", period, "returned", g.stats, <<>>,
                                g.recomputed, again)
              \/ /\ g.relocks
                 /\ m_databaseMutex' = "main"
                 /\ ret' = Call("getStatistics", period, "deadlock", <<>>, <<>>,
                                g.recomputed, again)
              \/ /\ g.relocks
                 /\ m_databaseMutex' = "free"
                 /\ ret' = Call("getStatistics", period, "system_error", <<>>, <<>>,
                                g.recomputed, again)
              \/ /\ g.relocks
                 /\ m_databaseMutex' = "free"
                 /\ ret' = Call("getStatistics", period, "returned",
                                periodStatistics(m_entries, period, Now), <<>>,
                                g.recomputed, again)
    /\ UNCHANGED <<m_entries, m_currentMealPeriod, sortKeepsTies, analyzer, m_changeCallbacks, file, arrival,
                   pc, local>>

\* registerChangeCallback(callback): appended to m_changeCallbacks, no lock
\* taken.
RegisterChangeCallback(kind) ==
    /\ m_databaseMutex = "free"
    /\ Len(m_changeCallbacks) < MaxCallbacks
    /\ m_changeCallbacks' = Append(m_changeCallbacks, kind)
    /\ ret' = Call("registerChangeCallback", kind, "returned", <<>>, <<>>, FALSE, FALSE)
    /\ UNCHANGED <<m_entries, m_statistics, m_statisticsDirty, m_currentMealPeriod, sortKeepsTies, analyzer,
                   m_databaseMutex, file, arrival, pc, local>>

\* saveToFile(): false when the stream does not open (the file is left as it
\* was), else the header and one line per entry replace the file.  A write
\* that fails (the device is full) sets the stream's badbit and throws
\* nothing: the lines from there on are dropped and the call still returns
\* true.
SaveToFile ==
    /\ m_databaseMutex = "free"
    /\ \/ /\ file' = saveToFile(m_entries)
          /\ ret' = Call("saveToFile", <<>>, "returned", TRUE, <<>>, FALSE, FALSE)
       \/ /\ file' = file
          /\ ret' = Call("saveToFile", <<>>, "returned", FALSE, <<>>, FALSE, FALSE)
       \/ \E written \in 0..Len(m_entries) :
             /\ file' = [exists |-> TRUE,
                         lines |-> SubSeq(saveToFile(m_entries).lines, 1, written)]
             /\ ret' = Call("saveToFile", <<>>, "returned", TRUE, <<>>, FALSE, FALSE)
    /\ UNCHANGED <<m_entries, m_statistics, m_statisticsDirty, m_currentMealPeriod, sortKeepsTies, analyzer,
                   m_changeCallbacks, m_databaseMutex, arrival, pc, local>>

\* loadFromFile().
LoadFromFile ==
    /\ m_databaseMutex = "free"
    /\ LET r == loadFromFile(Db(m_entries, m_statistics, m_statisticsDirty), file)
       IN  /\ m_entries' = r.entries
           /\ m_statistics' = r.stats
           /\ m_statisticsDirty' = r.dirty
           /\ ret' = Call("loadFromFile", <<>>, "returned", r.result, <<>>, FALSE, FALSE)
           /\ arrival' = r.entries
    /\ UNCHANGED <<m_currentMealPeriod, sortKeepsTies, analyzer, m_changeCallbacks, m_databaseMutex, file,
                   pc, local>>

\* initialize().
Initialize ==
    /\ m_databaseMutex = "free"
    /\ LET r == initialize(Db(m_entries, m_statistics, m_statisticsDirty), file)
       IN  /\ m_entries' = r.entries
           /\ m_statistics' = r.stats
           /\ m_statisticsDirty' = r.dirty
           /\ ret' = Call("initialize", <<>>, "returned", r.result, <<>>, FALSE, FALSE)
           /\ arrival' = r.entries
    /\ UNCHANGED <<m_currentMealPeriod, sortKeepsTies, analyzer, m_changeCallbacks, m_databaseMutex, file,
                   pc, local>>

\* What std::mutex::lock does on the mutex the calling thread holds.
Relocks == {"deadlock", "system_error", "returned"}

\* The end of the constructor, from the result u of updateStats: an exception
\* leaves no object; a thread that blocks stays inside the constructor.
Constructed(u) ==
    /\ m_statistics' = u.stats
    /\ m_statisticsDirty' = u.dirty
    /\ m_databaseMutex' = IF u.outcome = "deadlock" THEN "main" ELSE "free"
    /\ analyzer' = IF u.outcome = "returned"
                   THEN [u.analyzer EXCEPT !.constructed = TRUE]
                   ELSE IF u.outcome = "system_error" THEN NoAnalyzer
                   ELSE u.analyzer
    /\ ret' = Call("StatsAnalyzer", <<>>, u.outcome, <<>>, <<>>, FALSE, FALSE)

\* StatsAnalyzer(database): m_insightsDirty(true), then updateStats().
NewStatsAnalyzer ==
    /\ m_databaseMutex = "free"
    /\ ~analyzer.constructed
    /\ \E relock \in Relocks :
          Constructed(updateStats(Db(m_entries, m_statistics, m_statisticsDirty),
                                  NoAnalyzer, relock, Now))
    /\ UNCHANGED <<m_entries, m_currentMealPeriod, sortKeepsTies, m_changeCallbacks,
                   file, arrival, pc, local>>

\* The end of a getInsights whose predictFutureWaste(7) ran updateStats, from
\* its result u: the forecast of the refreshed model is appended to the list
\* built before it and m_insightsDirty is cleared, unless the call blocked or
\* ended by the exception.
Refreshed(u) ==
    /\ m_statistics' = u.stats
    /\ m_statisticsDirty' = u.dirty
    /\ m_databaseMutex' = IF u.outcome = "deadlock" THEN "main" ELSE "free"
    /\ analyzer' = IF u.outcome = "returned"
                   THEN [u.analyzer EXCEPT
                            !.m_insights = @ \o forecastOf(u.analyzer),
                            !.m_insightsDirty = FALSE]
                   ELSE u.analyzer
    /\ ret' = Call("getInsights", <<>>, u.outcome,
                   IF u.outcome = "returned"
                   THEN u.analyzer.m_insights \o forecastOf(u.analyzer)
                   ELSE <<>>,
                   <<>>, TRUE, FALSE)

\* getInsights(): when m_insightsDirty is set or m_insights is empty, the list
\* is rebuilt from m_currentStats and m_dailyTrend, predictFutureWaste(7) runs
\* updateStats if the fit is poor and gives the last sentence, and the flag is
\* cleared; else m_insights is returned as it is.  recomputed tells which.
GetInsights ==
    /\ m_databaseMutex = "free"
    /\ analyzer.constructed
    /\ \/ /\ analyzer.m_insightsDirty \/ analyzer.m_insights = <<>>
          /\ ~poorFit(analyzer.m_wastePredictionModel)
          /\ analyzer' = [analyzer EXCEPT
                            !.m_insights =
                                insightsOf(analyzer.m_currentStats, analyzer.m_dailyTrend)
                                \o forecastOf(analyzer),
                            !.m_insightsDirty = FALSE]
          /\ ret' = Call("getInsights", <<>>, "returned",
                         insightsOf(analyzer.m_currentStats, analyzer.m_dailyTrend)
                         \o forecastOf(analyzer),
                         <<>>, TRUE, FALSE)
          /\ UNCHANGED <<m_statistics, m_statisticsDirty, m_databaseMutex>>
       \/ /\ analyzer.m_insightsDirty \/ analyzer.m_insights = <<>>
          /\ poorFit(analyzer.m_wastePredictionModel)
          /\ \E relock \in Relocks :
                Refreshed(updateStats(
                    Db(m_entries, m_statistics, m_statisticsDirty),
                    [analyzer EXCEPT !.m_insights =
                        insightsOf(analyzer.m_currentStats, analyzer.m_dailyTrend)],
                    relock, Now))
       \/ /\ ~(analyzer.m_insightsDirty \/ analyzer.m_insights = <<>>)
          /\ ret' = Call("getInsights", <<>>, "returned", analyzer.m_insights,
                         <<>>, FALSE, FALSE)
          /\ UNCHANGED <<analyzer, m_statistics, m_statisticsDirty, m_databaseMutex>>
    /\ UNCHANGED <<m_entries, m_currentMealPeriod, sortKeepsTies, m_changeCallbacks,
                   file, arrival, pc, local>>

\* The end of a predictFutureWaste that ran updateStats, from its result u.
Forecast(u, daysInFuture) ==
    /\ m_statistics' = u.stats
    /\ m_statisticsDirty' = u.dirty
    /\ m_databaseMutex' = IF u.outcome = "deadlock" THEN "main" ELSE "free"
    /\ analyzer' = u.analyzer
    /\ ret' = Call("predictFutureWaste", daysInFuture, u.outcome,
                   IF u.outcome = "returned"
                   THEN predictedWaste(u.analyzer.m_wastePredictionModel,
                                       Len(u.analyzer.m_dailyTrend.values),
                                       daysInFuture)
                   ELSE <<>>,
                   <<>>, TRUE, FALSE)

\* predictFutureWaste(daysInFuture): 0 for a negative argument; else
\* updateStats first when the fit is poor, then the clamped line.
PredictFutureWaste(daysInFuture) ==
    /\ m_databaseMutex = "free"
    /\ analyzer.constructed
    /\ \/ /\ daysInFuture < 0 \/ ~poorFit(analyzer.m_wastePredictionModel)
          /\ ret' = Call("predictFutureWaste", daysInFuture, "returned",
                         predictedWaste(analyzer.m_wastePredictionModel,
                                        Len(analyzer.m_dailyTrend.values),
                                        daysInFuture),
                         <<>>, FALSE, FALSE)
          /\ UNCHANGED <<analyzer, m_statistics, m_statisticsDirty, m_databaseMutex>>
       \/ /\ daysInFuture >= 0
          /\ poorFit(analyzer.m_wastePredictionModel)
          /\ \E relock \in Relocks :
                Forecast(updateStats(Db(m_entries, m_statistics, m_statisticsDirty),
                                     analyzer, relock, Now),
                         daysInFuture)
    /\ UNCHANGED <<m_entries, m_currentMealPeriod, sortKeepsTies, m_changeCallbacks,
                   file, arrival, pc, local>>

\* analyzeFoodTypeTrend(foodType): the trend of the entries of the category,
\* stored in m_foodTypeTrends unless there is no such entry.
AnalyzeFoodTypeTrend(foodType) ==
    /\ m_databaseMutex = "free"
    /\ analyzer.constructed
    /\ ret' = Call("analyzeFoodTypeTrend", foodType, "returned",
                   analyzeFoodTypeTrend(getEntries(m_entries, foodType, "", ""),
                                        DefaultDays),
                   <<>>, FALSE, FALSE)
    /\ analyzer' = IF getEntries(m_entries, foodType, "", "") = <<>> THEN analyzer
                   ELSE [analyzer EXCEPT !.m_foodTypeTrends =
                            MapPut(@, foodType,
                                   analyzeFoodTypeTrend(
                                       getEntries(m_entries, foodType, "", ""),
                                       DefaultDays))]
    /\ UNCHANGED <<m_entries, m_statistics, m_statisticsDirty, m_currentMealPeriod,
                   sortKeepsTies, m_changeCallbacks, m_databaseMutex, file, arrival,
                   pc, local>>

\* analyzeMealPeriodTrend(mealPeriod): the trend of the entries of the meal
\* period, stored in m_mealPeriodTrends unless the ledger is empty.
AnalyzeMealPeriodTrend(mealPeriod) ==
    /\ m_databaseMutex = "free"
    /\ analyzer.constructed
    /\ ret' = Call("analyzeMealPeriodTrend", mealPeriod, "returned",
                   analyzeMealPeriodTrend(getEntries(m_entries, "", "", ""),
                                          mealPeriod, DefaultDays),
                   <<>>, FALSE, FALSE)
    /\ analyzer' = IF getEntries(m_entries, "", "", "") = <<>> THEN analyzer
                   ELSE [analyzer EXCEPT !.m_mealPeriodTrends =
                            MapPut(@, mealPeriod,
                                   analyzeMealPeriodTrend(
                                       getEntries(m_entries, "", "", ""),
                                       mealPeriod, DefaultDays))]
    /\ UNCHANGED <<m_entries, m_statistics, m_statisticsDirty, m_currentMealPeriod,
                   sortKeepsTies, m_changeCallbacks, m_databaseMutex, file, arrival,
                   pc, local>>

\* TimePeriod.
TimePeriods == {"DAY", "WEEK", "MONTH", "YEAR", "ALL_TIME"}

\* The arguments the model passes to getEntries; "2024-13-45" is a start or
\* end date get_time rejects.
FoodTypeArgs == {"", "Rice"}
DateArgs == {"", "2024-03-04", "2024-03-05", "2024-13-45"}

\* A client that appends, queries and asks for statistics; it registers no
\* subscriber and never persists.
Next ==
    \/ \E entry \in Observations : AddEntry(entry)
    \/ \E item \in Detections : AddDetection(item)
    \/ \E foodType \in FoodTypeArgs, startDate \in DateArgs, endDate \in DateArgs :
          GetEntries(foodType, startDate, endDate)
    \/ \E period \in TimePeriods : GetStatistics(period)

Spec == Init /\ [][Next]_vars

\* The observations the client with subscribers appends.
NotifyObservations ==
    { e \in Observations :
        e.timestamp \in {"2024-03-04 12:00:00", "2024-03-04 23:59:59"} }

\* A client that registers subscribers, appends and reads the all-time
\* statistics.
NextNotify ==
    \/ \E kind \in CallbackKinds : RegisterChangeCallback(kind)
    \/ \E entry \in NotifyObservations : AddEntry(entry)
    \/ GetStatistics("ALL_TIME")

SpecNotify == Init /\ [][NextNotify]_vars

\* The observations the persisting client appends: a category that holds a
\* comma, and two plain ones.
StoreObservations ==
    { WasteEntry("Mac,Cheese", 2, "2024-03-04 12:00:00", 1, "Lunch", "") }
    \cup { e \in Observations : e.mealPeriod = "Snack" \/ e.weight = 3 }

\* A client that appends, reads the all-time statistics, and saves and loads
\* the ledger.
NextStore ==
    \/ \E entry \in StoreObservations : AddEntry(entry)
    \/ GetStatistics("ALL_TIME")
    \/ SaveToFile
    \/ LoadFromFile
    \/ Initialize

SpecStore == Init /\ [][NextStore]_vars

\* The observations the client with an analyzer appends: entries of the last
\* seven days, of the week before them, of later today, and one whose
\* timestamp does not parse.
AnalyzerObservations ==
    { e \in Observations : e.weight > 1 \/ e.timestamp = "2024-03-04 23:59:59" }
    \cup { WasteEntry("Rice", 2, "2024-02-25 12:00:00", 1, "Lunch", ""),
           WasteEntry("Soup", 1, "2024-02-25 12:00:00", 1, "Lunch", ""),
           WasteEntry("Rice", 1, "2024-03-05 21:00:00", 1, "Dinner", "") }

\* A client that appends, reads the all-time statistics, and constructs a
\* StatsAnalyzer on the database and asks it for its insights.
NextAnalyzer ==
    \/ \E entry \in AnalyzerObservations : AddEntry(entry)
    \/ GetStatistics("ALL_TIME")
    \/ NewStatsAnalyzer
    \/ GetInsights

SpecAnalyzer == Init /\ [][NextAnalyzer]_vars

\* The observations the client that asks for forecasts appends: an entry of
\* three weeks ago, one of yesterday and one of later today; and the days
\* ahead it asks for.
ForecastObservations ==
    { e \in AnalyzerObservations :
        e.foodType = "Rice" /\ e.timestamp \in {"2024-03-04 12:00:00",
                                                "2024-03-05 21:00:00"} }
    \cup { WasteEntry("Rice", 3, "2024-02-10 12:00:00", 1, "Dinner", "") }
ForecastDays == {0 - 1, 0, 7, 10}

\* A client that appends, constructs a StatsAnalyzer and asks it for
\* forecasts.
NextForecast ==
    \/ \E entry \in ForecastObservations : AddEntry(entry)
    \/ NewStatsAnalyzer
    \/ \E daysInFuture \in ForecastDays : PredictFutureWaste(daysInFuture)

SpecForecast == Init /\ [][NextForecast]_vars

\* The keys of combinedWaste, pairs of food type and meal period, in the
\* order std::map iterates them (by food type, then by meal period).
CombinationOrder ==
    << <<"Rice", "Dinner">>, <<"Rice", "Lunch">>, <<"Soup", "Dinner">>,
       <<"Soup", "Lunch">> >>

\* The combinations left in the key order of the map, unsorted.
sortCombinations_keyOrder(combinedWaste) ==
    SelectSeq(CombinationOrder, LAMBDA k : k \in DOMAIN combinedWaste)

\* std::sort(sortedCombinations.begin(), sortedCombinations.end(),
\* a.second > b.second) on the pairs of combinedWaste taken in key order: the
\* keys by falling weight; two of equal weight may come out either way round.
sortCombinations(combinedWaste) ==
    LET place(k) == CHOOSE i \in DOMAIN CombinationOrder : CombinationOrder[i] = k
        before(a, b) ==
            \/ combinedWaste[a] > combinedWaste[b]
            \/ /\ combinedWaste[a] = combinedWaste[b]
               /\ IF sortKeepsTies THEN place(a) < place(b) ELSE place(a) > place(b)
        ahead(k) == Cardinality({ a \in DOMAIN combinedWaste : before(a, k) })
    IN  [i \in 1..Cardinality(DOMAIN combinedWaste) |->
            CHOOSE k \in DOMAIN combinedWaste : ahead(k) = i - 1]

\* generateRecommendations(limit), from the entries getEntries() returned:
\* combinedWaste[{foodType, mealPeriod}] += weight for each entry, the sort,
\* and one record for each of the first std::min(static_cast<size_t>(limit),
\* size) combinations (a negative limit converts to a size above any size);
\* potentialSavings is weight * 0.3f.
generateRecommendations(entries, limit) ==
    LET total[i \in 0..Len(entries)] ==
            IF i = 0 THEN EmptyMap
            ELSE MapAdd(total[i - 1],
                        <<entries[i].foodType, entries[i].mealPeriod>>,
                        entries[i].weight)
        combinedWaste == total[Len(entries)]
        sortedCombinations == sortCombinations(combinedWaste)
        size == Len(sortedCombinations)
        count == IF limit < 0 \/ limit > size THEN size ELSE limit
    IN  [i \in 1..count |->
            [foodType |-> sortedCombinations[i][1],
             mealPeriod |-> sortedCombinations[i][2],
             weight |-> combinedWaste[sortedCombinations[i]],
             potentialSavings |->
                 Fraction(combinedWaste[sortedCombinations[i]] * 3, 10)]]

\* generateRecommendations(limit): getTopWastedFoods(5) recalculates the
\* snapshot when it is stale and clears m_statisticsDirty; getWasteByMeal()
\* and getEntries() then read; each takes and frees the mutex once.
GenerateRecommendations(limit) ==
    /\ m_databaseMutex = "free"
    /\ analyzer.constructed
    /\ m_statistics' =
          getStatistics(Db(m_entries, m_statistics, m_statisticsDirty), "ALL_TIME").stats
    /\ m_statisticsDirty' = FALSE
    /\ ret' = Call("generateRecommendations", limit, "returned",
                   generateRecommendations(getEntries(m_entries, "", "", ""), limit),
                   <<>>, m_statisticsDirty, FALSE)
    /\ UNCHANGED <<m_entries, m_currentMealPeriod, sortKeepsTies, analyzer,
                   m_changeCallbacks, m_databaseMutex, file, arrival, pc, local>>

\* The observations the client that asks for recommendations appends: two
\* combinations, each with a weight of 100 and one of 50.  The grouping does
\* not read the timestamp; it is one no daily trend takes up.
RecommendObservations ==
    { WasteEntry(c[1], weight, "not a time", 1, c[2], "") :
        c \in { <<"Rice", "Lunch">>, <<"Soup", "Dinner">> }, weight \in {50, 100} }

\* A client that appends, constructs a StatsAnalyzer and asks it for
\* recommendations; 3 is the default limit.
NextRecommend ==
    \/ \E entry \in RecommendObservations : AddEntry(entry)
    \/ NewStatsAnalyzer
    \/ \E limit \in {0 - 1, 0, 1, 3} : GenerateRecommendations(limit)

SpecRecommend == Init /\ [][NextRecommend]_vars

\* getWasteTrend(DAY) and getWasteTrend(WEEK), after getStatistics(period)
\* has returned: one zero for each of "00:00" .. "23:00", then the weight of
\* each entry of getEntries("", today, today) whose timestamp parses added to
\* its hour.  The map is kept as the sequence of its values in key order.
hourlyTrend(entries, now) ==
    LET dateStr == put_date(localtime(now))
        todayEntries == getEntries(entries, "", dateStr, dateStr)
        trend[i \in 0..Len(todayEntries)] ==
            IF i = 0 THEN [h \in 1..24 |-> 0]
            ELSE IF get_time(todayEntries[i].timestamp).fail THEN trend[i - 1]
            ELSE [trend[i - 1] EXCEPT
                    ![get_time(todayEntries[i].timestamp).hour + 1] =
                        @ + todayEntries[i].weight]
    IN  trend[Len(todayEntries)]

\* analyzeDailyTrend(days) with its labels, after getWasteTrend has returned:
\* the map of WEEK for days <= 7, of MONTH for days <= 30, else of YEAR,
\* sorted by key and cut to the last days pairs.  A label [hour |-> h] is the
\* key "hh:00", a label [date |-> d] the key "%Y-%m-%d" of day d.
analyzeDailyTrendOf(entries, days, now) ==
    LET size == IF days <= 30 THEN 30 ELSE 365
        labels == IF days <= 7 THEN [i \in 1..24 |-> [hour |-> i - 1]]
                  ELSE [i \in 1..size |->
                           [date |-> localtime(now - Days(size - i)).day]]
        wasteTrend == IF days <= 7 THEN hourlyTrend(entries, now)
                      ELSE getWasteTrend(entries, size, now)
    IN  [analyzeDailyTrend(wasteTrend, days) EXCEPT
            !.timeLabels = lastDays(labels, days)]

\* analyzeDailyTrend(days): getWasteTrend's getStatistics(period) recomputes
\* the snapshot, clears m_statisticsDirty and calls getEntries with the mutex
\* held (relock); the trend is returned, no member of the analyzer written.
AnalyzeDailyTrend(days) ==
    /\ m_databaseMutex = "free"
    /\ analyzer.constructed
    /\ m_statistics' =
          getStatistics(Db(m_entries, m_statistics, m_statisticsDirty), "MONTH").stats
    /\ m_statisticsDirty' = FALSE
    /\ \E relock \in Relocks :
          /\ m_databaseMutex' = IF relock = "deadlock" THEN "main" ELSE "free"
          /\ ret' = Call("analyzeDailyTrend", days, relock,
                         IF relock = "returned"
                         THEN analyzeDailyTrendOf(m_entries, days, Now)
                         ELSE <<>>,
                         <<>>, TRUE, FALSE)
    /\ UNCHANGED <<m_entries, m_currentMealPeriod, sortKeepsTies, analyzer,
                   m_changeCallbacks, file, arrival, pc, local>>

\* A client that appends, constructs a StatsAnalyzer and asks it for the
\* daily trend of three days, of thirty (the default) and of forty.
NextDaily ==
    \/ \E entry \in ForecastObservations : AddEntry(entry)
    \/ NewStatsAnalyzer
    \/ \E days \in {3, 30, 40} : AnalyzeDailyTrend(days)

SpecDaily == Init /\ [][NextDaily]_vars

\* The observations the client that asks for trends appends, and the
\* arguments it passes to the per-category and per-meal trends.
TrendObservations ==
    { e \in AnalyzerObservations :
        e.timestamp \in {"2024-03-04 12:00:00", "not a time"}
        \/ (e.foodType = "Soup" /\ e.mealPeriod = "Lunch") }
TrendFoodTypes == {"Rice", "Soup"}
TrendMealPeriods == {"Lunch", ""}

\* A client that appends, constructs a StatsAnalyzer and asks it for the
\* trend of a category or of a meal period.
NextTrend ==
    \/ \E entry \in TrendObservations : AddEntry(entry)
    \/ NewStatsAnalyzer
    \/ \E foodType \in TrendFoodTypes : AnalyzeFoodTypeTrend(foodType)
    \/ \E mealPeriod \in TrendMealPeriods : AnalyzeMealPeriodTrend(mealPeriod)

SpecTrend == Init /\ [][NextTrend]_vars

\* ------------------------------------------- calls of the helper functions

\* Whether the call before this one was the same call with the same argument.
Again(op, arg) == ret.op = op /\ ret.arg = arg /\ ret.outcome = "returned"

\* The record of a call of a function that touches no member: log holds the
\* value of the call before it when that was the same call.
Applied(op, arg, value) ==
    /\ ret' = Call(op, arg, "returned", value,
                   IF Again(op, arg) THEN <<ret.value>> ELSE <<>>,
                   FALSE, Again(op, arg))
    /\ UNCHANGED <<m_entries, m_statistics, m_statisticsDirty, m_currentMealPeriod,
                   sortKeepsTies, analyzer, m_changeCallbacks, m_databaseMutex,
                   file, arrival, pc, local>>

\* The times of day and the timestamps the classification is asked for.
HourSamples == 0..23
MinuteSamples == {0, 1, 29, 30, 31, 59}
TimestampSamples == { r.text : r \in TimeTable } \cup {"not a time", ""}

\* determineMealPeriod(hour, minute).
DetermineMealPeriodAt(hour, minute) ==
    Applied("determineMealPeriod(int, int)", <<hour, minute>>,
            determineMealPeriodAt(hour, minute))

\* determineMealPeriod(timestamp).
DetermineMealPeriod(timestamp) ==
    Applied("determineMealPeriod(string)", timestamp, determineMealPeriod(timestamp))

\* A client of the meal-period classification.
NextClassify ==
    \/ \E hour \in HourSamples, minute \in MinuteSamples :
          DetermineMealPeriodAt(hour, minute)
    \/ \E timestamp \in TimestampSamples : DetermineMealPeriod(timestamp)

SpecClassify == Init /\ [][NextClassify]_vars

\* The value series the helper functions are applied to: every series of at
\* most MaxSeries values of SeriesValues, and three longer or larger ones.
MaxSeries == 3
SeriesValues == {0 - 1, 0, 2}
SeriesSamples ==
    UNION { [1..n -> SeriesValues] : n \in 0..MaxSeries }
    \cup { <<0, 5, 8>>, <<100, 50, 0>>, <<10, 20, 30, 40>> }

\* performLinearRegression(0 .. n-1, yValues, intercept, slope, rSquared).
PerformLinearRegression(yValues) ==
    Applied("performLinearRegression", yValues, performLinearRegression(yValues))

\* createPredictionModel(data).
CreatePredictionModel(data) ==
    Applied("createPredictionModel", data, createPredictionModel(data))

\* calculateTrendPercentage(values), and the changePercentage and increasing
\* the trend analyses store from it.
CalculateTrendPercentage(values) ==
    Applied("calculateTrendPercentage", values,
            trendData([i \in DOMAIN values |-> i], values))

\* A client of the regression and of the trend percentage.
NextSeries ==
    \/ \E yValues \in SeriesSamples : PerformLinearRegression(yValues)
    \/ \E data \in SeriesSamples : CreatePredictionModel(data)
    \/ \E values \in SeriesSamples : CalculateTrendPercentage(values)

SpecSeries == Init /\ [][NextSeries]_vars

\* The keys of a weekday pattern and of weightByMeal, in the order std::map
\* iterates them (byte order).
PatternOrder ==
    <<"Breakfast", "Dinner", "Friday", "Lunch", "Monday", "Saturday", "Snack",
      "Sunday", "Thursday", "Tuesday", "Wednesday">>

\* identifyOutliers(data, threshold): the pairs of data whose
\* std::abs(value - mean) / stdDev exceeds threshold, stdDev the population
\* standard deviation.  With S the sum, n the size and D = n * sum of squares
\* - S * S, that is |n * value - S| / sqrt(D) > threshold, compared squared
\* (both sides are not negative).  When stdDev is 0 every quotient is 0 / 0,
\* NaN, which exceeds nothing.
identifyOutliers(data, threshold) ==
    LET sum[K \in SUBSET DOMAIN data] ==
            IF K = {} THEN 0
            ELSE LET k == CHOOSE k \in K : TRUE IN data[k] + sum[K \ {k}]
        squares[K \in SUBSET DOMAIN data] ==
            IF K = {} THEN 0
            ELSE LET k == CHOOSE k \in K : TRUE
                 IN  data[k] * data[k] + squares[K \ {k}]
        n == Cardinality(DOMAIN data)
        S == sum[DOMAIN data]
        D == n * squares[DOMAIN data] - S * S
        outliers == { k \in DOMAIN data :
                        threshold.den * threshold.den
                            * (n * data[k] - S) * (n * data[k] - S)
                        > threshold.num * threshold.num * D }
    IN  [k \in outliers |-> data[k]]

\* findCorrelations(), from the pattern calculateDayOfWeekPattern returned
\* and from m_currentStats.weightByMeal: one "consistently has higher waste"
\* sentence for each outlier of the days, then one for each outlier of the
\* meal periods, in key order; the threshold is the default 1.5f.
findCorrelations(dayPattern, mealPattern) ==
    LET sentences(outliers) ==
            LET keys == SelectSeq(PatternOrder, LAMBDA k : k \in DOMAIN outliers)
            IN  [i \in DOMAIN keys |->
                    [about |-> "higher waste", key |-> keys[i],
                     weight |-> outliers[keys[i]]]]
    IN  sentences(identifyOutliers(dayPattern, Fraction(3, 2)))
        \o sentences(identifyOutliers(mealPattern, Fraction(3, 2)))

\* The maps the outlier analysis is applied to: the weight by meal period of
\* ledgers with up to four meal periods, and four weekday patterns (the keys
\* of calculateDayOfWeekPattern are the seven day names).
PatternSamples ==
    UNION { [K -> {0, 60}] : K \in SUBSET {"Breakfast", "Dinner", "Lunch", "Snack"} }
    \cup { [d \in {"Sunday", "Monday", "Tuesday", "Wednesday", "Thursday", "Friday",
                   "Saturday"} |-> v[d]] :
             v \in { ("Monday" :> 10) @@ ("Tuesday" :> 12) @@ ("Wednesday" :> 11)
                       @@ ("Thursday" :> 60) @@ ("Friday" :> 9) @@ ("Saturday" :> 10)
                       @@ ("Sunday" :> 11),
                     [d \in {"Sunday", "Monday", "Tuesday", "Wednesday", "Thursday",
                             "Friday", "Saturday"} |-> 0],
                     [d \in {"Sunday", "Monday", "Tuesday", "Wednesday", "Thursday",
                             "Friday", "Saturday"} |-> IF d = "Monday" THEN 0 - 2 ELSE 0],
                     [d \in {"Sunday", "Monday", "Tuesday", "Wednesday", "Thursday",
                             "Friday", "Saturday"} |-> IF d = "Sunday" THEN 0 ELSE 60] } }

\* identifyOutliers(data), with the default threshold.
IdentifyOutliers(data) ==
    Applied("identifyOutliers", [data |-> data, threshold |-> Fraction(3, 2)],
            identifyOutliers(data, Fraction(3, 2)))

\* findCorrelations(), when the weekday pattern and the weight by meal period
\* are the two maps.
FindCorrelations(dayPattern, mealPattern) ==
    Applied("findCorrelations", [dayPattern |-> dayPattern, mealPattern |-> mealPattern],
            findCorrelations(dayPattern, mealPattern))

\* The outlier analysis applied to the sample maps.
NextOutliers ==
    \/ \E data \in PatternSamples : IdentifyOutliers(data)
    \/ \E dayPattern \in { p \in PatternSamples : "Monday" \in DOMAIN p },
          mealPattern \in { p \in PatternSamples : "Monday" \notin DOMAIN p } :
          FindCorrelations(dayPattern, mealPattern)

SpecOutliers == Init /\ [][NextOutliers]_vars

\* ------------------------------------------------ calls of several threads

\* std::lock_guard<std::mutex> lock(m_databaseMutex): the constructor returns
\* once the mutex is free.
lock_guard_enters_held(mutex) ==
    TRUE
lock_guard(mutex) ==
    mutex = "free"

\* The locals of a call of thread t that has just taken the mutex.
Locals(op, entry) ==
    [op |-> op, entry |-> entry, i |-> 0, result |-> <<>>, maps |-> WasteStatistics]

\* The return of a call of thread t: the lock_guard's destructor frees the
\* mutex.
Return(t, op, arg, value, recomputed) ==
    /\ pc' = [pc EXCEPT ![t] = "idle"]
    /\ local' = [local EXCEPT ![t] = NoLocals]
    /\ m_databaseMutex' = "free"
    /\ ret' = Call(op, arg, "returned", value, <<>>, recomputed, FALSE)

\* Thread t enters addEntry, getEntries(), getStatistics(ALL_TIME) or
\* saveToFile and takes the mutex.
Lock(t, op, entry) ==
    /\ pc[t] = "idle"
    /\ m_databaseMutex # "main"
    /\ op = "addEntry" => Len(arrival) < MaxEntries
    /\ lock_guard(m_databaseMutex)
    /\ m_databaseMutex' = t
    /\ pc' = [pc EXCEPT ![t] = op]
    /\ local' = [local EXCEPT ![t] = Locals(op, entry)]
    /\ UNCHANGED <<m_entries, m_statistics, m_statisticsDirty, m_currentMealPeriod, sortKeepsTies, analyzer,
                   m_changeCallbacks, file, ret, arrival>>

\* addEntry: m_entries.push_back(entry) reads the end of the vector...
PushBackRead(t) ==
    /\ pc[t] = "addEntry"
    /\ pc' = [pc EXCEPT ![t] = "push_back"]
    /\ local' = [local EXCEPT ![t].i = Len(m_entries)]
    /\ UNCHANGED <<m_entries, m_statistics, m_statisticsDirty, m_currentMealPeriod, sortKeepsTies, analyzer,
                   m_changeCallbacks, m_databaseMutex, file, ret, arrival>>

\* ... and constructs the entry there, moving the end one past it.
PushBackWrite(t) ==
    /\ pc[t] = "push_back"
    /\ pc' = [pc EXCEPT ![t] = "pushed"]
    /\ m_entries' = SubSeq(m_entries, 1, local[t].i) \o <<local[t].entry>>
    /\ arrival' = Append(arrival, local[t].entry)
    /\ UNCHANGED <<m_statistics, m_statisticsDirty, m_currentMealPeriod, sortKeepsTies, analyzer,
                   m_changeCallbacks, m_databaseMutex, file, ret, local>>

\* addEntry: m_statisticsDirty = true, the end of the locked block, and
\* notifyDatabaseChanged over the subscribers (these clients register none).
AddEntryReturn(t) ==
    /\ pc[t] = "pushed"
    /\ m_changeCallbacks = <<>>
    /\ m_statisticsDirty' = TRUE
    /\ Return(t, "addEntry", local[t].entry, <<>>, FALSE)
    /\ UNCHANGED <<m_entries, m_statistics, m_currentMealPeriod, sortKeepsTies, analyzer, m_changeCallbacks,
                   file, arrival>>

\* getEntries(): filteredEntries = m_entries copies the size of the vector...
CopyBegin(t) ==
    /\ pc[t] = "getEntries"
    /\ pc' = [pc EXCEPT ![t] = "copy"]
    /\ local' = [local EXCEPT ![t].i = Len(m_entries)]
    /\ UNCHANGED <<m_entries, m_statistics, m_statisticsDirty, m_currentMealPeriod, sortKeepsTies, analyzer,
                   m_changeCallbacks, m_databaseMutex, file, ret, arrival>>

\* ... and then its elements, one by one.
CopyElement(t) ==
    /\ pc[t] = "copy"
    /\ Len(local[t].result) < local[t].i
    /\ local' = [local EXCEPT
                    ![t].result = Append(@, m_entries[Len(local[t].result) + 1])]
    /\ UNCHANGED <<m_entries, m_statistics, m_statisticsDirty, m_currentMealPeriod, sortKeepsTies, analyzer,
                   m_changeCallbacks, m_databaseMutex, file, ret, arrival, pc>>

\* getEntries(): return filteredEntries.
GetEntriesReturn(t) ==
    /\ pc[t] = "copy"
    /\ Len(local[t].result) = local[t].i
    /\ Return(t, "getEntries", <<"", "", "">>, local[t].result, FALSE)
    /\ UNCHANGED <<m_entries, m_statistics, m_statisticsDirty, m_currentMealPeriod, sortKeepsTies, analyzer,
                   m_changeCallbacks, file, arrival>>

\* getStatistics(ALL_TIME) with the flag set: calculateStatistics resets
\* m_statistics and, unless there are no entries, stores their number.
CalculateReset(t) ==
    /\ pc[t] = "getStatistics"
    /\ m_statisticsDirty
    /\ m_statistics' = [WasteStatistics EXCEPT !.totalItems = Len(m_entries)]
    /\ pc' = [pc EXCEPT ![t] = IF m_entries = <<>> THEN "calculated" ELSE "calculate"]
    /\ local' = [local EXCEPT ![t].i = 1]
    /\ UNCHANGED <<m_entries, m_statisticsDirty, m_currentMealPeriod, sortKeepsTies, analyzer,
                   m_changeCallbacks, m_databaseMutex, file, ret, arrival>>

\* calculateStatistics: one pass of the loop over m_entries.
CalculateEntry(t) ==
    /\ pc[t] = "calculate"
    /\ local[t].i <= Len(m_entries)
    /\ LET entry == m_entries[local[t].i]
       IN  /\ m_statistics' = [m_statistics EXCEPT !.totalWeight = @ + entry.weight]
           /\ local' = [local EXCEPT
                  ![t].i = @ + 1,
                  ![t].maps.weightByType = MapAdd(@, entry.foodType, entry.weight),
                  ![t].maps.countByType  = MapAdd(@, entry.foodType, 1),
                  ![t].maps.weightByMeal = MapAdd(@, entry.mealPeriod, entry.weight)]
    /\ UNCHANGED <<m_entries, m_statisticsDirty, m_currentMealPeriod, sortKeepsTies, analyzer,
                   m_changeCallbacks, m_databaseMutex, file, ret, arrival, pc>>

\* calculateStatistics: the maps are stored into m_statistics.
CalculateStore(t) ==
    /\ pc[t] = "calculate"
    /\ local[t].i > Len(m_entries)
    /\ m_statistics' = [m_statistics EXCEPT
                           !.weightByType = local[t].maps.weightByType,
                           !.countByType  = local[t].maps.countByType,
                           !.weightByMeal = local[t].maps.weightByMeal,
                           !.topWastedFoods = calculateStatistics(m_entries).topWastedFoods,
                           !.wasteSavedTotal = calculateStatistics(m_entries).wasteSavedTotal,
                           !.wasteSavedPercentage =
                               calculateStatistics(m_entries).wasteSavedPercentage]
    /\ pc' = [pc EXCEPT ![t] = "calculated"]
    /\ UNCHANGED <<m_entries, m_statisticsDirty, m_currentMealPeriod, sortKeepsTies, analyzer,
                   m_changeCallbacks, m_databaseMutex, file, ret, arrival, local>>

\* getStatistics(ALL_TIME): m_statisticsDirty = false after a recalculation,
\* and return m_statistics.
GetStatisticsReturn(t) ==
    \/ /\ pc[t] = "calculated"
       /\ m_statisticsDirty' = FALSE
       /\ Return(t, "getStatistics", "ALL_TIME", m_statistics, TRUE)
       /\ UNCHANGED <<m_entries, m_statistics, m_currentMealPeriod, sortKeepsTies, analyzer,
                      m_changeCallbacks, file, arrival>>
    \/ /\ pc[t] = "getStatistics"
       /\ ~m_statisticsDirty
       /\ Return(t, "getStatistics", "ALL_TIME", m_statistics, FALSE)
       /\ UNCHANGED <<m_entries, m_statistics, m_statisticsDirty,
                      m_currentMealPeriod, sortKeepsTies, analyzer, m_changeCallbacks, file, arrival>>

\* saveToFile(): the stream opens and truncates the file, and the header is
\* written; or it does not open and the call returns false.
SaveOpen(t) ==
    /\ pc[t] = "saveToFile"
    /\ \/ /\ file' = [exists |-> TRUE, lines |-> <<HeaderLine>>]
          /\ pc' = [pc EXCEPT ![t] = "write"]
          /\ local' = [local EXCEPT ![t].i = 1]
          /\ UNCHANGED <<m_databaseMutex, ret>>
       \/ /\ Return(t, "saveToFile", <<>>, FALSE, FALSE)
          /\ UNCHANGED file
    /\ UNCHANGED <<m_entries, m_statistics, m_statisticsDirty, m_currentMealPeriod, sortKeepsTies, analyzer,
                   m_changeCallbacks, arrival>>

\* saveToFile(): one pass of the loop that writes the entries.
SaveEntry(t) ==
    /\ pc[t] = "write"
    /\ local[t].i <= Len(m_entries)
    /\ file' = [file EXCEPT !.lines = Append(@, EntryLine(m_entries[local[t].i]))]
    /\ local' = [local EXCEPT ![t].i = @ + 1]
    /\ UNCHANGED <<m_entries, m_statistics, m_statisticsDirty, m_currentMealPeriod, sortKeepsTies, analyzer,
                   m_changeCallbacks, m_databaseMutex, ret, arrival, pc>>

\* saveToFile(): file.close() and return true.
SaveReturn(t) ==
    /\ pc[t] = "write"
    /\ local[t].i > Len(m_entries)
    /\ Return(t, "saveToFile", <<>>, TRUE, FALSE)
    /\ UNCHANGED <<m_entries, m_statistics, m_statisticsDirty, m_currentMealPeriod, sortKeepsTies, analyzer,
                   m_changeCallbacks, file, arrival>>

\* The observations the concurrent clients append.
ConcObservations ==
    { e \in Observations : e.foodType = "Rice" /\ e.weight > 0 }

\* The calls the concurrent clients make.
ConcCalls == {"addEntry", "getEntries", "getStatistics", "saveToFile"}

\* Two threads, each in a loop of calls on the one database.
NextConc ==
    \E t \in Threads :
        \/ \E entry \in ConcObservations : Lock(t, "addEntry", entry)
        \/ \E op \in ConcCalls \ {"addEntry"} : Lock(t, op, <<>>)
        \/ PushBackRead(t)
        \/ PushBackWrite(t)
        \/ AddEntryReturn(t)
        \/ CopyBegin(t)
        \/ CopyElement(t)
        \/ GetEntriesReturn(t)
        \/ CalculateReset(t)
        \/ CalculateEntry(t)
        \/ CalculateStore(t)
        \/ GetStatisticsReturn(t)
        \/ SaveOpen(t)
        \/ SaveEntry(t)
        \/ SaveReturn(t)

SpecConc == Init /\ [][NextConc]_vars

\* ------------------------------------------------------------------ claims

\* Whether every entry of a sequence is a valid observation (weight >= 0).
AllValid(entries) == \A i \in DOMAIN entries : entries[i].weight >= 0

\* C1: after N addEntry calls with valid observations on the empty ledger the
\* ledger holds exactly those N entries in call order (whatever their
\* timestamps), and getEntries() with no filter returns that sequence.  As
\* arrival only ever grows at its end, the equality in every state also says
\* that no append or read removes, reorders or alters a stored entry.
C1_ArrivalOrder ==
    AllValid(arrival) =>
        /\ m_entries = arrival
        /\ (ret.op = "getEntries" /\ ret.arg = <<"", "", "">>) => ret.value = arrival

\* C1's case: two valid entries, the later timestamp appended first, read back.
C1_Witness ==
    /\ Len(arrival) = 2
    /\ AllValid(arrival)
    /\ arrival[1].timestamp = "2024-03-05 00:00:00"
    /\ arrival[2].timestamp = "2024-03-04 12:00:00"
    /\ ret.op = "getEntries"
    /\ ret.arg = <<"", "", "">>

\* C3: every getStatistics(period) call returns, for each period: no call ends
\* with its thread waiting for the ledger mutex it already holds (or with the
\* error that relocking raises).
C3_StatisticsCallReturns ==
    /\ ret.op = "getStatistics" => ret.outcome = "returned"
    /\ m_databaseMutex = "free"

\* C4: addEntry with a negative weight is rejected and signalled, so every
\* stored entry has weight >= 0.
C4_NegativeWeightRejected ==
    /\ AllValid(m_entries)
    /\ (ret.op = "addEntry" /\ ret.arg.weight < 0) => ret.outcome = "rejected"

\* C5: an observation appended with its meal period unset (addEntry with an
\* empty mealPeriod, or addDetection) is stored with the classification of its
\* own timestamp; a meal period that is set is stored unchanged.
C5_MealPeriodFromTimestamp ==
    /\ ret.op = "addEntry" =>
          m_entries[Len(m_entries)].mealPeriod =
              IF ret.arg.mealPeriod = ""
              THEN MealPeriodString(determineMealPeriod(ret.arg.timestamp))
              ELSE ret.arg.mealPeriod
    /\ ret.op = "addDetection" =>
          m_entries[Len(m_entries)].mealPeriod =
              MealPeriodString(determineMealPeriod(ret.arg.timestamp))

\* The calendar day of a timestamp of the samples.
DayOf(timestamp) == (CHOOSE r \in TimeTable : r.text = timestamp).day
DayOfDate(date) == (CHOOSE r \in DateTable : r.text = date).day
Parses(timestamp) == \E r \in TimeTable : r.text = timestamp
IsDate(date) == \E r \in DateTable : r.text = date

\* Whether an entry lies in startDate 00:00:00 .. endDate 23:59:59: its
\* timestamp is one of a day from startDate's to endDate's.
InRange(entry, foodType, startDate, endDate) ==
    /\ foodType # "" => entry.foodType = foodType
    /\ (startDate # "" \/ endDate # "") => Parses(entry.timestamp)
    /\ startDate # "" => DayOf(entry.timestamp) >= DayOfDate(startDate)
    /\ endDate # "" => DayOf(entry.timestamp) <= DayOfDate(endDate)

\* C8: getEntries(foodType, startDate, endDate) returns exactly the entries of
\* that category (when given) whose timestamp lies between startDate 00:00:00
\* and endDate 23:59:59 inclusive (for each bound given, a date), in ledger
\* order; nothing matching gives the empty sequence.
C8_QueryFilter ==
    (/\ ret.op = "getEntries"
     /\ ret.arg[2] = "" \/ IsDate(ret.arg[2])
     /\ ret.arg[3] = "" \/ IsDate(ret.arg[3]))
    => /\ ret.outcome = "returned"
       /\ ret.value = SelectSeq(m_entries,
                        LAMBDA e : InRange(e, ret.arg[1], ret.arg[2], ret.arg[3]))

\* C8's case: an end date whose 23:59:59 entry is returned while a later
\* entry is left out.
C8_Witness ==
    /\ ret.op = "getEntries"
    /\ ret.arg = <<"", "", "2024-03-04">>
    /\ Len(ret.value) = 1
    /\ ret.value[1].timestamp = "2024-03-04 23:59:59"
    /\ Len(m_entries) = 2

\* C10: a getStatistics(ALL_TIME) call that directly follows another returns
\* the same snapshot and does not recompute.
C10_SecondCallReturnsCache ==
    [][ (/\ ret.op = "getStatistics" /\ ret.arg = "ALL_TIME"
         /\ ret.outcome = "returned"
         /\ ret'.op = "getStatistics" /\ ret'.arg = "ALL_TIME")
        => (/\ ret'.outcome = "returned"
            /\ ret'.value = ret.value
            /\ ~ret'.recomputed) ]_vars

\* C10's case: the second of two calls in a row on a non-empty ledger.
C10_Witness ==
    /\ ret.op = "getStatistics"
    /\ ret.arg = "ALL_TIME"
    /\ ret.repeat
    /\ ret.outcome = "returned"
    /\ Len(m_entries) = 2

\* C6: an addEntry none of whose subscribers throws returns, having invoked
\* every registered subscriber exactly once, in registration order, each after
\* the entry was appended and the dirty flag set (the flag is still set unless
\* a subscriber called before has recomputed the statistics); a subscriber
\* that reads the ledger sees the new entry and does not block.
C6_SubscribersNotified ==
    (/\ ret.op = "addEntry"
     /\ \A i \in DOMAIN m_changeCallbacks : m_changeCallbacks[i] # "throws")
    => /\ ret.outcome = "returned"
       /\ Len(ret.log) = Len(m_changeCallbacks)
       /\ \A i \in DOMAIN ret.log :
            /\ ret.log[i].callback = i
            /\ ret.log[i].kind = m_changeCallbacks[i]
            /\ ~ret.log[i].blocked
            /\ ret.log[i].entries = m_entries
            /\ ret.log[i].entries[Len(m_entries)] = ret.arg
            /\ \/ ret.log[i].dirty
               \/ \E j \in 1..(i - 1) : ret.log[j].kind = "getStatistics"

\* C6's case: two reading subscribers, called in order on a second append.
C6_Witness ==
    /\ ret.op = "addEntry"
    /\ ret.outcome = "returned"
    /\ m_changeCallbacks = <<"getStatistics", "getEntries">>
    /\ Len(ret.log) = 2
    /\ ~ret.log[2].dirty
    /\ Len(m_entries) = 2

RECURSIVE WeightOf(_)
WeightOf(entries) ==
    IF entries = <<>> THEN 0
    ELSE Head(entries).weight + WeightOf(Tail(entries))

\* Whether a snapshot holds the totals and the per-category and per-meal sums
\* of a sequence of entries.
SnapshotOf(stats, entries) ==
    LET types == { entries[i].foodType : i \in DOMAIN entries }
        meals == { entries[i].mealPeriod : i \in DOMAIN entries }
    IN  /\ stats.totalItems = Len(entries)
        /\ stats.totalWeight = WeightOf(entries)
        /\ DOMAIN stats.weightByType = types
        /\ DOMAIN stats.countByType = types
        /\ DOMAIN stats.weightByMeal = meals
        /\ \A t \in types :
             /\ stats.weightByType[t] = WeightOf(SelectSeq(entries, LAMBDA e : e.foodType = t))
             /\ stats.countByType[t] =
                  Cardinality({ i \in DOMAIN entries : entries[i].foodType = t })
        /\ \A m \in meals :
             stats.weightByMeal[m] = WeightOf(SelectSeq(entries, LAMBDA e : e.mealPeriod = m))

\* C2: in every state with the dirty flag clear, the cached all-time snapshot
\* holds the totals and sums of the current entries.
C2_CleanCacheIsCurrent ==
    ~m_statisticsDirty => SnapshotOf(m_statistics, m_entries)

\* C9: with threads calling addEntry, getEntries, getStatistics(ALL_TIME) and
\* saveToFile concurrently, a thread is inside a call only while it holds the
\* mutex, no append is lost, and every getEntries result, returned all-time
\* snapshot and saved file is that of a prefix of the arrival order.
Prefixes(entries) ==
    { SubSeq(entries, 1, k) : k \in 0..Len(entries) }

C9_SerializedByOneLock ==
    /\ \A t \in Threads : pc[t] # "idle" => m_databaseMutex = t
    /\ m_entries = arrival
    /\ (ret.op = "getEntries" /\ ret.arg = <<"", "", "">>)
         => ret.value \in Prefixes(arrival)
    /\ (ret.op = "getStatistics" /\ ret.arg = "ALL_TIME" /\ ret.outcome = "returned")
         => \E p \in Prefixes(arrival) : SnapshotOf(ret.value, p)
    /\ (file.exists /\ \A t \in Threads : pc[t] # "write")
         => \E p \in Prefixes(arrival) : file = saveToFile(p)

\* Two appends with a save between them, a snapshot of both returned, and a
\* thread that has just entered saveToFile again.
C9_Witness ==
    /\ Len(arrival) = 2
    /\ ret.op = "getStatistics" /\ ret.recomputed /\ ret.value.totalItems = 2
    /\ file = saveToFile(SubSeq(arrival, 1, 1))
    /\ \E t \in Threads : pc[t] = "saveToFile"

\* map[key] read without inserting: zero for a key that is missing.
MapGet(map, key) ==
    IF key \in DOMAIN map THEN map[key] ELSE 0

\* Whether the snapshot after is the snapshot before grown by entry o alone.
GrownBy(before, after, o) ==
    /\ after.totalItems = before.totalItems + 1
    /\ after.totalWeight = before.totalWeight + o.weight
    /\ DOMAIN after.weightByType = DOMAIN before.weightByType \cup {o.foodType}
    /\ DOMAIN after.countByType = DOMAIN before.countByType \cup {o.foodType}
    /\ DOMAIN after.weightByMeal = DOMAIN before.weightByMeal \cup {o.mealPeriod}
    /\ \A t \in DOMAIN after.weightByType :
         /\ after.weightByType[t] = MapGet(before.weightByType, t)
                                    + (IF t = o.foodType THEN o.weight ELSE 0)
         /\ after.countByType[t] = MapGet(before.countByType, t)
                                   + (IF t = o.foodType THEN 1 ELSE 0)
    /\ \A p \in DOMAIN after.weightByMeal :
         after.weightByMeal[p] = MapGet(before.weightByMeal, p)
                                 + (IF p = o.mealPeriod THEN o.weight ELSE 0)

\* Whether the all-time snapshot read after addEntry(o) is the snapshot
\* beforeStats grown by o.
GrownAfter(beforeStats, added, o) ==
    GrownBy(beforeStats,
            getStatistics(Db(added.entries, added.stats, added.dirty), "ALL_TIME").stats,
            o)

\* The same, from the all-time read made just before the append.
GrownByAppend(before, o) ==
    GrownAfter(before.stats,
               addEntry(Db(before.entries, before.stats, before.dirty),
                        m_changeCallbacks, o),
               o)

\* C11: in every ledger state, for every valid observation o, the all-time
\* snapshot read after addEntry(o) is the all-time snapshot read just before
\* it with one more item, o.weight more weight, o's category and meal period
\* grown by the same and every other sum unchanged.
C11_AppendGrowsSnapshot ==
    m_databaseMutex = "free" =>
        \A o \in { e \in Observations : AllValid(<<e>>) } :
            GrownByAppend(getStatistics(Db(m_entries, m_statistics, m_statisticsDirty),
                                        "ALL_TIME"), o)

\* The entries of a sequence whose timestamp parses to a time t with
\* from <= t <= to.
WithinWindow(entries, from, to) ==
    SelectSeq(entries, LAMBDA e :
        /\ ~get_time(e.timestamp).fail
        /\ from <= mktime(get_time(e.timestamp))
        /\ mktime(get_time(e.timestamp)) <= to)

\* C12: a getStatistics call with a bounded period that returns gives the
\* sums of exactly the entries timestamped within [now - window, now].
C12_WindowAggregate ==
    (ret.op = "getStatistics" /\ ret.arg # "ALL_TIME" /\ ret.outcome = "returned")
        => SnapshotOf(ret.value,
                      WithinWindow(m_entries, Now - Days(PeriodDays(ret.arg)), Now))

\* C13: for every ledger, the file saveToFile writes begins with the header
\* line of the six field names, and loadFromFile on that file succeeds and
\* yields the same entries, in order and equal in every field.
C13_SaveLoadRoundTrip ==
    LET saved  == saveToFile(m_entries)
        loaded == loadFromFile(Db(m_entries, m_statistics, m_statisticsDirty), saved)
    IN  /\ saved.lines[1] = HeaderLine
        /\ loaded.result
        /\ loaded.entries = m_entries

\* C14: loadFromFile or initialize with no file at the path leaves the ledger
\* empty and returns true.
C14_MissingFileStartsEmpty ==
    (ret.op \in {"loadFromFile", "initialize"} /\ ~file.exists)
        => /\ ret.value = TRUE
           /\ m_entries = <<>>

\* The records of the lines from line i on whose numeric fields are numbers,
\* in file order.
RECURSIVE WellFormedRecords(_, _)
WellFormedRecords(lines, i) ==
    IF i > Len(lines) THEN <<>>
    ELSE (IF ParseLine(lines[i]).throws THEN <<>> ELSE <<ParseLine(lines[i]).entry>>)
         \o WellFormedRecords(lines, i + 1)

\* C15: loadFromFile on a file with a malformed record returns true and
\* leaves in the ledger every well-formed record of the file, in file order.
C15_MalformedRowSkipped ==
    (ret.op = "loadFromFile" /\ file.exists)
        => /\ ret.value = TRUE
           /\ m_entries = WellFormedRecords(file.lines, 2)

\* C16: a saveToFile call either returns true and leaves the complete new
\* file, or returns false and leaves the file as it was; it never leaves a
\* truncated or half-written ledger.
C16_SaveAllOrNothing ==
    [][ ret'.op = "saveToFile"
        => \/ ret'.value = TRUE /\ file' = saveToFile(m_entries)
           \/ ret'.value = FALSE /\ file' = file ]_vars


\* The place of a category in the key order of weightByType.
KeyPlace(k) == CHOOSE i \in DOMAIN FoodTypeOrder : FoodTypeOrder[i] = k

\* top lists min(5, number of categories) categories of weights by
\* non-increasing weight, categories of equal weight in key order.
RankedInKeyOrder(top, weights) ==
    /\ Len(top) = IF Cardinality(DOMAIN weights) < 5
                  THEN Cardinality(DOMAIN weights) ELSE 5
    /\ \A i \in DOMAIN top : top[i] \in DOMAIN weights
    /\ \A i, j \in DOMAIN top :
          i < j => \/ weights[top[i]] > weights[top[j]]
                   \/ /\ weights[top[i]] = weights[top[j]]
                      /\ KeyPlace(top[i]) < KeyPlace(top[j])
    /\ \A k \in DOMAIN weights :
          (\A i \in DOMAIN top : top[i] # k)
              => \A i \in DOMAIN top : weights[top[i]] >= weights[k]

\* C18: the top-wasted list of every all-time snapshot holds min(5, number of
\* categories) categories by non-increasing total weight, and categories of
\* equal weight keep the key order of the per-category map.  std::sort is not
\* stable, so the order of equal weights is the library's choice: violated.
C18_TopWastedTiesInKeyOrder ==
    (ret.op = "getStatistics" /\ ret.arg = "ALL_TIME" /\ ret.outcome = "returned")
        => RankedInKeyOrder(ret.value.topWastedFoods, ret.value.weightByType)


\* The entries of a category (every entry for ""), and those of a meal period.
OfFoodType(entries, foodType) ==
    SelectSeq(entries, LAMBDA e : foodType = "" \/ e.foodType = foodType)
OfMealPeriod(entries, mealPeriod) ==
    SelectSeq(entries, LAMBDA e : e.mealPeriod = mealPeriod)

\* Whether every bucket of a trend is the date of an entry whose timestamp
\* parses and holds the weight of the entries of that date.
BucketsOfParsedDates(trend, entries) ==
    \A i \in DOMAIN trend.timeLabels :
        /\ \E j \in DOMAIN entries :
              /\ ~get_time(entries[j].timestamp).fail
              /\ put_date(get_time(entries[j].timestamp)) = trend.timeLabels[i]
        /\ trend.values[i] =
              WeightOf(SelectSeq(entries, LAMBDA e :
                  /\ ~get_time(e.timestamp).fail
                  /\ put_date(get_time(e.timestamp)) = trend.timeLabels[i]))

\* C17: an entry whose timestamp does not parse creates or feeds no bucket of
\* the per-category or per-meal-period trend: every bucket of a returned trend
\* is the date of a matching entry that parses and sums those entries only.
\* Both trends group by the first ten characters of the timestamp without
\* parsing it: violated.
C17_UnparsedFeedsNoTrendBucket ==
    /\ (ret.op = "analyzeFoodTypeTrend" /\ ret.outcome = "returned")
          => BucketsOfParsedDates(ret.value, OfFoodType(m_entries, ret.arg))
    /\ (ret.op = "analyzeMealPeriodTrend" /\ ret.outcome = "returned")
          => BucketsOfParsedDates(ret.value, OfMealPeriod(m_entries, ret.arg))

\* The weight of the entries timestamped in the seven days before the last
\* seven, and of those timestamped from seven days before now on.
PriorWeekWeight(entries) ==
    WeightOf(WithinWindow(entries, Now - Days(14), Now - Days(7) - 1))
LastWeekWeight(entries) ==
    WeightOf(SelectSeq(entries, LAMBDA e :
        /\ ~get_time(e.timestamp).fail
        /\ mktime(get_time(e.timestamp)) >= Now - Days(7)))

\* Whether a snapshot's reduction is the one of prior weight P and last
\* weight L.
ReductionOf(stats, P, L) ==
    /\ stats.wasteSavedTotal >= 0
    /\ stats.wasteSavedPercentage.num >= 0
    /\ stats.wasteSavedPercentage.den > 0
    /\ (P > 0 /\ P > L)
          => /\ stats.wasteSavedTotal = P - L
             /\ stats.wasteSavedPercentage.num * P
                    = (P - L) * 100 * stats.wasteSavedPercentage.den
    /\ (P = 0 \/ L >= P)
          => /\ stats.wasteSavedTotal = 0
             /\ stats.wasteSavedPercentage.num = 0

HeaviestCategory(entries) ==
    CHOOSE w \in { WeightOf(OfFoodType(entries, entries[i].foodType)) : i \in DOMAIN entries } :
        \A j \in DOMAIN entries : WeightOf(OfFoodType(entries, entries[j].foodType)) <= w

\* C20: the list a getInsights call returns accounts for every entry appended
\* before the call: its first sentence gives the total weight and the item
\* count of the ledger, and its second the heaviest category's weight.
\* getInsights reads the analyzer's own flag and its copy of the snapshot,
\* which addEntry touches neither: violated.
C20_InsightsFollowLedger ==
    (ret.op = "getInsights" /\ ret.outcome = "returned")
        => /\ ret.value[1] = [about |-> "total", weight |-> WeightOf(m_entries),
                              items |-> Len(m_entries)]
           /\ m_entries # <<>>
                 => /\ Len(ret.value) >= 2
                    /\ ret.value[2].about = "top"
                    /\ ret.value[2].weight = HeaviestCategory(m_entries)


\* The ranges of m_mealTimeRanges that hold a time of day, both bounds
\* included.
RangesHolding(hour, minute) ==
    { i \in DOMAIN m_mealTimeRanges :
        /\ m_mealTimeRanges[i].startHour * 60 + m_mealTimeRanges[i].startMinute
              <= hour * 60 + minute
        /\ hour * 60 + minute
              <= m_mealTimeRanges[i].endHour * 60 + m_mealTimeRanges[i].endMinute }

\* Whether period classifies the time of day: the period of a range that holds
\* it, SNACK when none does.
Classifies(period, hour, minute) ==
    IF RangesHolding(hour, minute) = {} THEN period = "SNACK"
    ELSE \E i \in RangesHolding(hour, minute) : period = m_mealTimeRanges[i].period

\* C28: the classification is total and deterministic: a time inside a range
\* (bounds included) gets that range's period, a time inside none SNACK, a
\* timestamp that does not parse UNKNOWN, and a call repeated with the same
\* argument gets the same single period, also at 21:00.
C28_MealPeriodClassification ==
    /\ ret.op = "determineMealPeriod(int, int)"
          => Classifies(ret.value, ret.arg[1], ret.arg[2])
    /\ ret.op = "determineMealPeriod(string)"
          => IF get_time(ret.arg).fail THEN ret.value = "UNKNOWN"
             ELSE Classifies(ret.value, get_time(ret.arg).hour, get_time(ret.arg).min)
    /\ (ret.op \in {"determineMealPeriod(int, int)", "determineMealPeriod(string)"}
        /\ ret.repeat)
          => ret.log = <<ret.value>>

\* C28's case: 21:00, the end of Dinner and the start of Snack, asked twice.
C28_Witness ==
    /\ ret.op = "determineMealPeriod(int, int)"
    /\ ret.arg = <<21, 0>>
    /\ Cardinality(RangesHolding(21, 0)) = 2
    /\ ret.repeat
    /\ ret.value = "DINNER"


\* The sum of the values of a map.
RECURSIVE SumOf(_)
SumOf(map) ==
    IF DOMAIN map = {} THEN 0
    ELSE LET k == CHOOSE k \in DOMAIN map : TRUE
         IN  map[k] + SumOf([j \in DOMAIN map \ {k} |-> map[j]])

\* Whether the totals of a snapshot are the sums of its maps and its ranking
\* names keys of weightByType only.
InternallyConsistent(stats) ==
    /\ stats.totalItems = SumOf(stats.countByType)
    /\ stats.totalWeight = SumOf(stats.weightByType)
    /\ stats.totalWeight = SumOf(stats.weightByMeal)
    /\ \A i \in DOMAIN stats.topWastedFoods :
          stats.topWastedFoods[i] \in DOMAIN stats.weightByType

\* C30: every snapshot getStatistics returns, all-time or bounded, is
\* internally consistent: totalItems is the sum of countByType (and, all-time,
\* the number of entries), totalWeight the sum of weightByType and of
\* weightByMeal, and every category of topWastedFoods a key of weightByType.
C30_SnapshotConsistent ==
    (ret.op = "getStatistics" /\ ret.outcome = "returned")
        => /\ InternallyConsistent(ret.value)
           /\ ret.arg = "ALL_TIME" => ret.value.totalItems = Len(m_entries)

\* C30's case: a bounded snapshot of two entries of two categories.
C30_Witness ==
    /\ ret.op = "getStatistics" /\ ret.outcome = "returned"
    /\ ret.arg # "ALL_TIME"
    /\ ret.value.totalItems = 2
    /\ Cardinality(DOMAIN ret.value.weightByType) = 2
    /\ Len(ret.value.topWastedFoods) = 2


\* Rational arithmetic on fractions kept in lowest terms with a positive
\* denominator.
RECURSIVE Gcd(_, _)
Gcd(a, b) == IF b = 0 THEN a ELSE Gcd(b, a % b)
Abs(a) == IF a < 0 THEN 0 - a ELSE a
Q(num, den) ==
    LET g == Gcd(Abs(num), Abs(den))
    IN  IF den < 0 THEN [num |-> (0 - num) \div g, den |-> (0 - den) \div g]
        ELSE [num |-> num \div g, den |-> den \div g]
QOf(q) == Q(q.num, q.den)
QAdd(p, q) == Q(p.num * q.den + q.num * p.den, p.den * q.den)
QSub(p, q) == Q(p.num * q.den - q.num * p.den, p.den * q.den)
QMul(p, q) == Q(p.num * q.num, p.den * q.den)
QDiv(p, q) == Q(p.num * q.den, p.den * q.num)
RECURSIVE QSum(_)
QSum(qs) == IF qs = <<>> THEN Q(0, 1) ELSE QAdd(Head(qs), QSum(Tail(qs)))

\* The residuals of the line of a model on a series over x = 0 .. n-1, the
\* mean of the series, and its total sum of squares.
Residuals(model, y) ==
    [i \in DOMAIN y |->
        QSub(Q(y[i], 1),
             QAdd(QOf(model.intercept), QMul(QOf(model.slope), Q(i - 1, 1))))]
MeanOf(y) == QDiv(QSum([i \in DOMAIN y |-> Q(y[i], 1)]), Q(Len(y), 1))
SST(y) == QSum([i \in DOMAIN y |->
                   QMul(QSub(Q(y[i], 1), MeanOf(y)), QSub(Q(y[i], 1), MeanOf(y)))])
SSR(model, y) ==
    QSum([i \in DOMAIN y |-> QMul(Residuals(model, y)[i], Residuals(model, y)[i])])

\* Whether a model is the zeroed one, and whether it is the least-squares line
\* of a series (its residuals sum to zero, plain and weighted by x) with
\* R2 = 1 - SSR / SST, 0 when SST is 0.
Zeroed(model) ==
    model.intercept.num = 0 /\ model.slope.num = 0 /\ model.rSquared.num = 0
LeastSquares(model, y) ==
    /\ QSum(Residuals(model, y)) = Q(0, 1)
    /\ QSum([i \in DOMAIN y |-> QMul(Residuals(model, y)[i], Q(i - 1, 1))]) = Q(0, 1)
    /\ QOf(model.rSquared) =
          IF SST(y) = Q(0, 1) THEN Q(0, 1)
          ELSE QSub(Q(1, 1), QDiv(SSR(model, y), SST(y)))

\* C22: the regression over x = 0 .. n-1 gives the zeroed model for fewer than
\* two points, else the least-squares slope and intercept with
\* R2 = 1 - SSR / SST (0 when SST is 0); [10, 20, 30, 40] gives slope 10,
\* intercept 10, R2 1.
C22_RegressionFit ==
    (ret.op \in {"performLinearRegression", "createPredictionModel"})
        => /\ Len(ret.arg) < 2 => Zeroed(ret.value)
           /\ Len(ret.arg) >= 2 => LeastSquares(ret.value, ret.arg)
           /\ ret.arg = <<10, 20, 30, 40>>
                 => /\ QOf(ret.value.slope) = Q(10, 1)
                    /\ QOf(ret.value.intercept) = Q(10, 1)
                    /\ QOf(ret.value.rSquared) = Q(1, 1)

\* C22's case: the fit of the exactly linear series.
C22_Witness ==
    /\ ret.op = "performLinearRegression"
    /\ ret.arg = <<10, 20, 30, 40>>
    /\ QOf(ret.value.slope) = Q(10, 1)
    /\ QOf(ret.value.rSquared) = Q(1, 1)

\* C23: changePercentage is (last - first) / first * 100, and 0 for fewer than
\* two values or a first value of 0 whatever follows; increasing is true
\* exactly when changePercentage > 0.
C23_TrendPercentage ==
    ret.op = "calculateTrendPercentage"
        => /\ (Len(ret.arg) < 2 \/ ret.arg[1] = 0)
                 => ret.value.changePercentage.num = 0
           /\ (Len(ret.arg) >= 2 /\ ret.arg[1] # 0)
                 => QOf(ret.value.changePercentage)
                       = Q((ret.arg[Len(ret.arg)] - ret.arg[1]) * 100, ret.arg[1])
           /\ ret.value.changePercentage.den # 0
           /\ ret.value.increasing <=> QOf(ret.value.changePercentage).num > 0

\* C23's case: a series that starts at 0 and grows.
C23_Witness ==
    /\ ret.op = "calculateTrendPercentage"
    /\ ret.arg = <<0, 5, 8>>
    /\ ret.value.changePercentage.num = 0
    /\ ~ret.value.increasing


\* C21: predictFutureWaste(d) is never negative; for d >= 0 it returns
\* max(0, intercept + slope * (lastIndex + d)) of the model and the trend the
\* analyzer holds when it returns, and 0 for d < 0.
C21_ForecastNotNegative ==
    (ret.op = "predictFutureWaste" /\ ret.outcome = "returned")
        => /\ QOf(ret.value).num >= 0
           /\ ret.arg < 0 => ret.value.num = 0
           /\ ret.arg >= 0
                 => LET line == QAdd(QOf(analyzer.m_wastePredictionModel.intercept),
                                     QMul(QOf(analyzer.m_wastePredictionModel.slope),
                                          Q(Len(analyzer.m_dailyTrend.values) - 1
                                            + ret.arg, 1)))
                    IN  QOf(ret.value) = IF line.num < 0 THEN Q(0, 1) ELSE line

\* C21's case: a model whose slope is negative and whose line lies below zero
\* at the day asked for, so that the forecast is 0.
C21_Witness ==
    /\ ret.op = "predictFutureWaste" /\ ret.outcome = "returned"
    /\ ret.arg = 10
    /\ QOf(analyzer.m_wastePredictionModel.slope).num < 0
    /\ QAdd(QOf(analyzer.m_wastePredictionModel.intercept),
            QMul(QOf(analyzer.m_wastePredictionModel.slope),
                 Q(Len(analyzer.m_dailyTrend.values) - 1 + 10, 1))).num < 0
    /\ ret.value.num = 0


\* The list getInsights builds when every sentence is derived from the one
\* ledger state entries: the snapshot, the daily trend and the fitted model of
\* those entries.
TrendOfLedger(entries) ==
    analyzeDailyTrend(getWasteTrend(entries, DefaultDays, Now), DefaultDays)
InsightsOfLedger(entries) ==
    insightsOf(calculateStatistics(entries), TrendOfLedger(entries))
    \o << [about |-> "forecast",
           waste |-> predictedWaste(
                        performLinearRegression(TrendOfLedger(entries).values),
                        Len(TrendOfLedger(entries).values), 7)] >>

\* C29: every list getInsights returns is derived from one ledger state (the
\* ledger as it was after some number of appends): its total, top-category,
\* trend and forecast sentences reflect the same entries.  When the cached
\* fit is weak the forecast comes from the statistics refreshed inside the
\* call while the other sentences were built before the refresh: violated.
C29_InsightsOfOneLedgerState ==
    (ret.op = "getInsights" /\ ret.outcome = "returned")
        => \E k \in 0..Len(m_entries) :
              ret.value = InsightsOfLedger(SubSeq(m_entries, 1, k))


\* The calendar dates on which an entry of a sequence lies, and the entries
\* of one such date.
DatesOf(entries) ==
    { put_date(get_time(entries[i].timestamp)) :
        i \in { j \in DOMAIN entries : ~get_time(entries[j].timestamp).fail } }
OnDate(entries, date) ==
    SelectSeq(entries, LAMBDA e :
        /\ ~get_time(e.timestamp).fail
        /\ put_date(get_time(e.timestamp)) = date)

\* Whether a trend is the series of the last days dates of the matching
\* entries: dates only, ascending, each with the weight of its entries, none
\* of the dates left out later than one kept, and the empty trend when no
\* entry matches.
DatedSeries(trend, matching, days) ==
    /\ Len(trend.values) = Len(trend.timeLabels)
    /\ \A i \in DOMAIN trend.timeLabels :
          /\ trend.timeLabels[i] \in DatesOf(matching)
          /\ trend.values[i] = WeightOf(OnDate(matching, trend.timeLabels[i]))
    /\ \A i, j \in DOMAIN trend.timeLabels :
          i < j => get_date(trend.timeLabels[i]).day < get_date(trend.timeLabels[j]).day
    /\ Len(trend.timeLabels) =
          IF Cardinality(DatesOf(matching)) < days
          THEN Cardinality(DatesOf(matching)) ELSE days
    /\ \A d \in DatesOf(matching) :
          (\A i \in DOMAIN trend.timeLabels : trend.timeLabels[i] # d)
             => \A i \in DOMAIN trend.timeLabels :
                   get_date(d).day < get_date(trend.timeLabels[i]).day
    /\ matching = <<>> => trend = TrendData

\* C27: the per-category and per-meal-period trends return only the dates on
\* which a matching entry exists, each with the sum of the matching entries'
\* weights of that date, in ascending date order, the most recent days of
\* them, and the empty series (change 0, not increasing) when no entry
\* matches.  An entry whose timestamp is no date gets a bucket of its own,
\* labelled with its first ten characters and sorted as text: violated.
C27_TrendsOfMatchingDates ==
    /\ (ret.op = "analyzeFoodTypeTrend" /\ ret.outcome = "returned")
          => DatedSeries(ret.value, OfFoodType(m_entries, ret.arg), DefaultDays)
    /\ (ret.op = "analyzeMealPeriodTrend" /\ ret.outcome = "returned")
          => DatedSeries(ret.value, OfMealPeriod(m_entries, ret.arg), DefaultDays)


\* The sum of the values of a map.
RECURSIVE MapSum(_)
MapSum(data) ==
    IF DOMAIN data = {} THEN 0
    ELSE LET k == CHOOSE k \in DOMAIN data : TRUE
         IN  data[k] + MapSum([j \in DOMAIN data \ {k} |-> data[j]])

\* Whether the z-score of key k, (value - mean) / population standard
\* deviation, exceeds threshold: the value lies above the mean and its
\* distance from it is more than threshold standard deviations.
ZScoreExceeds(data, k, threshold) ==
    LET n == Cardinality(DOMAIN data)
        S == MapSum(data)
        D == n * MapSum([j \in DOMAIN data |-> data[j] * data[j]]) - S * S
    IN  /\ n * data[k] > S
        /\ threshold.den * threshold.den * (n * data[k] - S) * (n * data[k] - S)
              > threshold.num * threshold.num * D

\* C26: identifyOutliers flags exactly the keys whose z-score, (value - mean)
\* over the population standard deviation, exceeds the threshold, so that
\* every key findCorrelations reports as having higher waste lies above the
\* mean of its map.  The code compares the absolute value of the difference,
\* which also flags a key that lies far below the mean: violated.
C26_OutliersLieAboveMean ==
    /\ (ret.op = "identifyOutliers" /\ ret.outcome = "returned")
          => /\ DOMAIN ret.value =
                   { k \in DOMAIN ret.arg.data :
                       ZScoreExceeds(ret.arg.data, k, ret.arg.threshold) }
             /\ \A k \in DOMAIN ret.value : ret.value[k] = ret.arg.data[k]
    /\ (ret.op = "findCorrelations" /\ ret.outcome = "returned")
          => \A i \in DOMAIN ret.value :
                LET data == IF ret.value[i].key \in DOMAIN ret.arg.dayPattern
                            THEN ret.arg.dayPattern ELSE ret.arg.mealPattern
                IN  Cardinality(DOMAIN data) * ret.value[i].weight > MapSum(data)


\* The combinations of a sequence of entries and the weight of one of them.
CombinationsOf(entries) ==
    { <<entries[i].foodType, entries[i].mealPeriod>> : i \in DOMAIN entries }
CombinationWeight(entries, c) ==
    WeightOf(SelectSeq(entries, LAMBDA e : e.foodType = c[1] /\ e.mealPeriod = c[2]))

\* Whether a list of recommendations is the top K of the combinations of a
\* sequence of entries: min(K, number of combinations) records of distinct
\* combinations, none lighter than the one after it or than a combination
\* left out, each with 30% of its combination's weight as potentialSavings.
TopCombinations(recs, entries, K) ==
    /\ Len(recs) = IF K < Cardinality(CombinationsOf(entries))
                   THEN K ELSE Cardinality(CombinationsOf(entries))
    /\ \A i \in DOMAIN recs :
          /\ <<recs[i].foodType, recs[i].mealPeriod>> \in CombinationsOf(entries)
          /\ recs[i].weight =
                CombinationWeight(entries, <<recs[i].foodType, recs[i].mealPeriod>>)
          /\ recs[i].potentialSavings.num * 100
                = 30 * recs[i].weight * recs[i].potentialSavings.den
          /\ \A j \in DOMAIN recs :
                /\ i < j => recs[i].weight >= recs[j].weight
                /\ i # j => <<recs[i].foodType, recs[i].mealPeriod>>
                               # <<recs[j].foodType, recs[j].mealPeriod>>
          /\ \A c \in CombinationsOf(entries) :
                (\A j \in DOMAIN recs : <<recs[j].foodType, recs[j].mealPeriod>> # c)
                   => CombinationWeight(entries, c) <= recs[i].weight

\* Whether the combinations of a sequence of entries are two, one of 100 and
\* one of 50.
TotalsHundredAndFifty(entries) ==
    /\ Cardinality(CombinationsOf(entries)) = 2
    /\ \E c, d \in CombinationsOf(entries) :
          CombinationWeight(entries, c) = 100 /\ CombinationWeight(entries, d) = 50

\* C25: generateRecommendations(K), K not negative, returns min(K, number of
\* distinct (category, meal period) groups) records, for the groups of
\* greatest summed weight, in non-increasing order of summed weight, each with
\* potentialSavings 30% of its group's weight; two groups of 100 and 50 give
\* the group of 100 first with potentialSavings 30.
C25_RecommendationsRanked ==
    (ret.op = "generateRecommendations" /\ ret.outcome = "returned" /\ ret.arg >= 0)
        => /\ TopCombinations(ret.value, m_entries, ret.arg)
           /\ (TotalsHundredAndFifty(m_entries) /\ ret.arg >= 1)
                 => /\ ret.value[1].weight = 100
                    /\ ret.value[1].potentialSavings.num
                          = 30 * ret.value[1].potentialSavings.den
C25_Witness ==
    /\ ret.op = "generateRecommendations"
    /\ ret.outcome = "returned"
    /\ ret.arg = 3
    /\ TotalsHundredAndFifty(m_entries)
    /\ Len(ret.value) = 2
    /\ ret.value[1].weight = 100
    /\ ret.value[2].weight = 50


\* The day of now, and the weight of the entries of a calendar day.
Today == localtime(Now).day
WeightOfDay(entries, d) ==
    WeightOf(SelectSeq(entries, LAMBDA e :
        ~get_time(e.timestamp).fail /\ get_time(e.timestamp).day = d))

\* Whether a trend is the daily series of the w most recent days: one entry
\* for each of the days in order, labelled with its date, holding the weight
\* of the entries of that day (0 for none), with the change of the last value
\* against the first in percent (0 when the first is 0).
DailySeries(trend, entries, w) ==
    /\ Len(trend.timeLabels) = w
    /\ Len(trend.values) = w
    /\ \A i \in 1..w :
          /\ trend.timeLabels[i] = [date |-> Today - w + i]
          /\ trend.values[i] = WeightOfDay(entries, Today - w + i)
    /\ IF trend.values[1] = 0
       THEN trend.changePercentage.num = 0
       ELSE trend.changePercentage.num * trend.values[1]
               = (trend.values[w] - trend.values[1]) * 100 * trend.changePercentage.den
    /\ trend.increasing <=> Positive(trend.changePercentage)

\* C24: for every window of w days, analyzeDailyTrend(w) is the series, in
\* date order, of one (calendar date, summed weight) entry for each of the w
\* most recent days, 0 for a day without entries.  For w <= 7 the function
\* takes the hourly map of today from getWasteTrend(WEEK), so its entries are
\* the last w hours of today: violated.
C24_DailyTrendOfRecentDays ==
    (ret.op = "analyzeDailyTrend" /\ ret.outcome = "returned")
        => DailySeries(ret.value, m_entries, ret.arg)

====
